---- MODULE Spec2Model ----
(***************************************************************************)
(* Model of the tau-bench enhanced evaluation core:                        *)
(*   - EfficiencyTracker, CompositeScorer, ErrorAnalyzer, EnhancedEvaluator *)
(*     (src/tau_bench/evaluation/*.py) as operators over an evaluator       *)
(*     record, driven by the specification SpecEval / SpecActions;          *)
(*   - run() and its worker pool, checkpoint lock and display_metrics       *)
(*     (src/tau_bench/run.py), driven by Spec and SpecMetrics.              *)
(*                                                                         *)
(* Numbers.  Python floats are modelled by exact rationals [n, d] in       *)
(* lowest terms, so that equalities between scores are decided exactly.    *)
(* Rewards are integers in units of 1e-7 (RewardOne is 1.0), which makes   *)
(* the 1e-6 success tolerance of display_metrics representable.            *)
(* Wall-clock readings (start_time, timestamps, total_duration) are kept   *)
(* only as "set / not set".                                                *)
(***************************************************************************)
EXTENDS Integers, Sequences, FiniteSets, TLC

\* ------------------------------------------------------------------------
\* Rational arithmetic (the float arithmetic of the scores)
\* ------------------------------------------------------------------------

RECURSIVE Gcd(_, _)
Gcd(a, b) ==
    IF b = 0 THEN a ELSE Gcd(b, a % b)

Abs(x) ==
    IF x < 0 THEN -x ELSE x

Q(n, d) ==
    LET g == Gcd(Abs(n), d)
    IN  [n |-> n \div g, d |-> d \div g]

QAdd(x, y) ==
    Q(x.n * y.d + y.n * x.d, x.d * y.d)

QSub(x, y) ==
    Q(x.n * y.d - y.n * x.d, x.d * y.d)

QMul(x, y) ==
    Q(x.n * y.n, x.d * y.d)

QLe(x, y) ==
    x.n * y.d <= y.n * x.d

QLt(x, y) ==
    x.n * y.d < y.n * x.d

QMax(x, y) ==
    IF QLe(x, y) THEN y ELSE x

QMin(x, y) ==
    IF QLe(x, y) THEN x ELSE y

Zero ==
    Q(0, 1)

One ==
    Q(1, 1)

RECURSIVE SeqSum(_)
SeqSum(s) ==
    IF s = <<>> THEN 0 ELSE Head(s) + SeqSum(Tail(s))

RECURSIVE QSeqSum(_)
QSeqSum(s) ==
    IF s = <<>> THEN Zero ELSE QAdd(Head(s), QSeqSum(Tail(s)))

Range(s) ==
    {s[i] : i \in 1..Len(s)}

Count(s, x) ==
    Cardinality({i \in 1..Len(s) : s[i] = x})

\* ------------------------------------------------------------------------
\* Message contents: a fixed vocabulary of texts.  Python's len(), the
\* lower()/"in" substring tests and re.search(..., re.IGNORECASE) are
\* tabulated on that vocabulary (the tables were computed with Python).
\* ------------------------------------------------------------------------

PyNone ==
    "<None>"

TxtEmpty ==
    ""

TxtYes ==
    "yes"

TxtDone ==
    "Your order has been cancelled as requested."

TxtTransfer ==
    "I am transferring you to a human agent."

TxtOpinion ==
    "I think you should wait."

TxtToolError ==
    "Error: order not found"

TxtOk ==
    "ok"

Contents ==
    {PyNone, TxtEmpty, TxtYes, TxtDone, TxtTransfer, TxtOpinion, TxtToolError, TxtOk}

\* len(content) for a str content
StrLen(c) ==
    CASE c = TxtEmpty     -> 0
      [] c = TxtYes       -> 3
      [] c = TxtDone      -> 43
      [] c = TxtTransfer  -> 39
      [] c = TxtOpinion   -> 24
      [] c = TxtToolError -> 22
      [] c = TxtOk        -> 2

\* len(str(content)): str(None) is "None"
StrOfLen(c) ==
    IF c = PyNone THEN 4 ELSE StrLen(c)

\* the phrases p of the source with  p in content.lower()
PhrasesIn(c) ==
    CASE c = TxtYes       -> {"yes"}
      [] c = TxtTransfer  -> {"human agent"}
      [] c = TxtOpinion   -> {"i think", "you should"}
      [] c = TxtToolError -> {"error"}
      [] OTHER            -> {}

\* the (error_type, pattern) pairs of error_patterns, in dictionary order,
\* with re.search(pattern, content, re.IGNORECASE)
PatternsMatching(c) ==
    CASE c = TxtTransfer -> << <<"premature_transfer", "transfer.*human">>,
                               <<"premature_transfer", "human agent">> >>
      [] c = TxtOpinion  -> << <<"policy_violation", "you.*should">>,
                               <<"policy_violation", "i.*think.*you">> >>
      [] OTHER           -> <<>>

\* Python truthiness of a content value: None and "" are falsy
Truthy(c) ==
    c # PyNone /\ c # TxtEmpty

HasAny(c, phrases) ==
    PhrasesIn(c) \cap phrases # {}

\* A message: role, content (a text or None) and the names of the embedded
\* tool-call requests (message['tool_calls'][k]['function']['name']).
Msg(role, content, calls) ==
    [role |-> role, content |-> content, tool_calls |-> calls]

\* ------------------------------------------------------------------------
\* EfficiencyTracker
\* ------------------------------------------------------------------------

NewTracker ==
    [start_time             |-> FALSE,
     tool_calls             |-> <<>>,
     conversation_turns     |-> 0,
     total_tokens           |-> 0,
     transfer_to_human      |-> FALSE,
     response_times         |-> <<>>,
     current_response_start |-> FALSE]

TrackerStartEvaluation(tr) ==
    [NewTracker EXCEPT !.start_time = TRUE]

\* durations in milliseconds
EstimateToolDuration(tool_name) ==
    CASE tool_name \in {"get_user_details", "get_order_details", "think"} -> 100
      [] tool_name = "cancel_pending_order"                               -> 500
      [] tool_name = "exchange_delivered_order_items"                     -> 1000
      [] OTHER                                                            -> 500

TrackerRecordToolCall(tr, tool_name, success, duration) ==
    LET d == IF duration = 0 THEN EstimateToolDuration(tool_name) ELSE duration
    IN  [tr EXCEPT !.tool_calls =
            Append(@, [name |-> tool_name, success |-> success, duration |-> d])]

\* _estimate_tokens without the role overhead
EstimateTokensNoOverhead(message) ==
    IF ~Truthy(message.content)
    THEN 0
    ELSE LET estimated_tokens ==
                 (StrOfLen(message.content) + Len(message.tool_calls) * 50) \div 4
         IN  IF estimated_tokens < 1 THEN 1 ELSE estimated_tokens

EstimateTokens(message) ==
    IF ~Truthy(message.content)
    THEN 0
    ELSE LET char_count         == StrOfLen(message.content)
             role_overhead      == 10
             tool_call_overhead == Len(message.tool_calls) * 50
             estimated_tokens   == (char_count + role_overhead + tool_call_overhead) \div 4
         IN  IF estimated_tokens < 1 THEN 1 ELSE estimated_tokens

\* The transfer test of EfficiencyTracker.record_turn: content.lower() on a
\* None content raises AttributeError.
TrackerTransferRaises(message) ==
    message.role = "assistant" /\ message.content = PyNone

\* Returns the tracker after the call and whether the call raised.  The
\* counters are updated before the transfer test, so they keep their new
\* values when the test raises.
\* record_turn with the flag assigned from the current message alone
TrackerRecordTurnLastMessage(tr, message, tokens_used) ==
    LET tokens == IF tokens_used = 0 THEN EstimateTokens(message) ELSE tokens_used
        est    == IF StrOfLen(message.content) > 500
                  THEN StrOfLen(message.content) ELSE 500
        t1     == [tr EXCEPT !.conversation_turns = @ + 1,
                             !.total_tokens = @ + tokens,
                             !.response_times =
                                 IF message.role = "assistant" THEN Append(@, est) ELSE @]
    IN  IF TrackerTransferRaises(message)
        THEN [tracker |-> t1, raised |-> TRUE]
        ELSE [tracker |->
                 [t1 EXCEPT !.transfer_to_human =
                     /\ message.role = "assistant"
                     /\ HasAny(message.content, {"transfer_to_human", "human agent"})],
              raised |-> FALSE]

TrackerRecordTurn(tr, message, tokens_used) ==
    LET tokens == IF tokens_used = 0 THEN EstimateTokens(message) ELSE tokens_used
        est    == IF StrOfLen(message.content) > 500
                  THEN StrOfLen(message.content) ELSE 500
        t1     == [tr EXCEPT !.conversation_turns = @ + 1,
                             !.total_tokens = @ + tokens,
                             !.response_times =
                                 IF message.role = "assistant" THEN Append(@, est) ELSE @]
    IN  IF TrackerTransferRaises(message)
        THEN [tracker |-> t1, raised |-> TRUE]
        ELSE [tracker |->
                 IF /\ message.role = "assistant"
                    /\ HasAny(message.content, {"transfer_to_human", "human agent"})
                 THEN [t1 EXCEPT !.transfer_to_human = TRUE]
                 ELSE t1,
              raised |-> FALSE]

TrackerStartResponse(tr) ==
    [tr EXCEPT !.current_response_start = TRUE]

\* the measured response time is a wall-clock difference, recorded as 1 ms
TrackerEndResponse(tr) ==
    IF tr.current_response_start
    THEN [tr EXCEPT !.response_times = Append(@, 1), !.current_response_start = FALSE]
    ELSE tr

SuccessCount(calls) ==
    Cardinality({i \in 1..Len(calls) : calls[i].success})

\* _calculate_conversation_efficiency with the steps taken below 20, 40, 60
CalculateConversationEfficiencyStrict(tr) ==
    IF tr.conversation_turns = 0
    THEN Zero
    ELSE LET length_score ==
                 IF tr.conversation_turns < 20 THEN Q(10, 10)
                 ELSE IF tr.conversation_turns < 40 THEN Q(8, 10)
                 ELSE IF tr.conversation_turns < 60 THEN Q(6, 10)
                 ELSE Q(4, 10)
             transfer_penalty == IF tr.transfer_to_human THEN Q(3, 10) ELSE Zero
         IN  QMax(Zero, QSub(length_score, transfer_penalty))

CalculateConversationEfficiency(tr) ==
    IF tr.conversation_turns = 0
    THEN Zero
    ELSE LET length_score ==
                 IF tr.conversation_turns <= 20 THEN Q(10, 10)
                 ELSE IF tr.conversation_turns <= 40 THEN Q(8, 10)
                 ELSE IF tr.conversation_turns <= 60 THEN Q(6, 10)
                 ELSE Q(4, 10)
             transfer_penalty == IF tr.transfer_to_human THEN Q(3, 10) ELSE Zero
         IN  QMax(Zero, QSub(length_score, transfer_penalty))

\* _calculate_tool_call_efficiency with the steps taken below 10, 20, 30
CalculateToolCallEfficiencyStrict(tr) ==
    IF tr.tool_calls = <<>>
    THEN Q(5, 10)
    ELSE LET tool_count == Len(tr.tool_calls)
             count_score ==
                 IF tool_count < 10 THEN Q(10, 10)
                 ELSE IF tool_count < 20 THEN Q(8, 10)
                 ELSE IF tool_count < 30 THEN Q(6, 10)
                 ELSE Q(4, 10)
             success_rate == Q(SuccessCount(tr.tool_calls), tool_count)
         IN  QMul(QAdd(count_score, success_rate), Q(1, 2))

CalculateToolCallEfficiency(tr) ==
    IF tr.tool_calls = <<>>
    THEN Q(5, 10)
    ELSE LET tool_count == Len(tr.tool_calls)
             count_score ==
                 IF tool_count <= 10 THEN Q(10, 10)
                 ELSE IF tool_count <= 20 THEN Q(8, 10)
                 ELSE IF tool_count <= 30 THEN Q(6, 10)
                 ELSE Q(4, 10)
             success_rate == Q(SuccessCount(tr.tool_calls), tool_count)
         IN  QMul(QAdd(count_score, success_rate), Q(1, 2))

CalculateOverallEfficiency(conversation_efficiency, tool_call_efficiency, tool_call_success_rate) ==
    QAdd(QAdd(QMul(conversation_efficiency, Q(4, 10)),
              QMul(tool_call_efficiency, Q(4, 10))),
         QMul(tool_call_success_rate, Q(2, 10)))

EmptyMetrics ==
    [avg_response_time       |-> Zero,
     tool_call_duration      |-> 0,
     total_turns             |-> 0,
     conversation_efficiency |-> Zero,
     total_tool_calls        |-> 0,
     successful_tool_calls   |-> 0,
     tool_call_success_rate  |-> Zero,
     tool_call_efficiency    |-> Zero,
     total_tokens            |-> 0,
     tokens_per_turn         |-> Zero,
     cost_estimate           |-> Zero,
     transfer_to_human       |-> FALSE,
     transfer_rate           |-> Zero,
     overall_efficiency      |-> Zero]

\* calculate_metrics past its start_time test
StartedMetrics(tr) ==
    LET total_tool_calls       == Len(tr.tool_calls)
        successful_tool_calls  == SuccessCount(tr.tool_calls)
        tool_call_success_rate ==
            IF total_tool_calls > 0
            THEN Q(successful_tool_calls, total_tool_calls) ELSE One
        conversation_efficiency == CalculateConversationEfficiency(tr)
        tool_call_efficiency    == CalculateToolCallEfficiency(tr)
    IN  [avg_response_time       |->
             IF tr.response_times # <<>>
             THEN Q(SeqSum(tr.response_times), Len(tr.response_times))
             ELSE Zero,
         tool_call_duration      |->
             SeqSum([i \in 1..Len(tr.tool_calls) |-> tr.tool_calls[i].duration]),
         total_turns             |-> tr.conversation_turns,
         conversation_efficiency |-> conversation_efficiency,
         total_tool_calls        |-> total_tool_calls,
         successful_tool_calls   |-> successful_tool_calls,
         tool_call_success_rate  |-> tool_call_success_rate,
         tool_call_efficiency    |-> tool_call_efficiency,
         total_tokens            |-> tr.total_tokens,
         tokens_per_turn         |->
             IF tr.conversation_turns > 0
             THEN Q(tr.total_tokens, tr.conversation_turns) ELSE Zero,
         cost_estimate           |-> Q(tr.total_tokens, 100000),
         transfer_to_human       |-> tr.transfer_to_human,
         transfer_rate           |-> IF tr.transfer_to_human THEN One ELSE Zero,
         overall_efficiency      |->
             CalculateOverallEfficiency(conversation_efficiency,
                                        tool_call_efficiency,
                                        tool_call_success_rate)]

\* calculate_metrics without the start_time test
CalculateMetricsUnguarded(tr) ==
    StartedMetrics(tr)

CalculateMetrics(tr) ==
    IF ~tr.start_time
    THEN EmptyMetrics
    ELSE StartedMetrics(tr)

\* ------------------------------------------------------------------------
\* CompositeScorer
\* ------------------------------------------------------------------------

\* rewards are integers in units of 1e-7
RewardOne ==
    10 * 1000 * 1000

NameSet(actions) ==
    {actions[i] : i \in 1..Len(actions)}

\* efficiency_tracker: whether a tracker is attached (EnhancedEvaluator.__init__
\* attaches its own)
NewScorer ==
    [start_time         |-> FALSE,
     tool_calls         |-> <<>>,
     conversation_turns |-> 0,
     transfer_to_human  |-> FALSE,
     efficiency_tracker |-> FALSE]

ScorerStartEvaluation(sc) ==
    [sc EXCEPT !.start_time = TRUE,
               !.tool_calls = <<>>,
               !.conversation_turns = 0,
               !.transfer_to_human = FALSE]

ScorerRecordToolCall(sc, tool_name, success) ==
    [sc EXCEPT !.tool_calls = Append(@, [name |-> tool_name, success |-> success])]

ScorerRecordTurn(sc, message) ==
    [sc EXCEPT !.conversation_turns = @ + 1,
               !.transfer_to_human =
                   IF /\ message.role = "assistant"
                      /\ Truthy(message.content)
                      /\ HasAny(message.content, {"transfer_to_human", "human agent"})
                   THEN TRUE ELSE @]

\* a plausible slip: the penalty for wrong actions left out
CalculateTaskCompletionNoPenalty(binary_reward, task_actions, actual_actions) ==
    IF binary_reward = RewardOne
    THEN One
    ELSE IF task_actions = <<>> \/ actual_actions = <<>>
    THEN Zero
    ELSE Q(Cardinality(NameSet(task_actions) \cap NameSet(actual_actions)),
           Cardinality(NameSet(task_actions)))

\* _calculate_task_completion without the final max(0.0, ...)
CalculateTaskCompletionUnclamped(binary_reward, task_actions, actual_actions) ==
    IF binary_reward = RewardOne
    THEN One
    ELSE IF task_actions = <<>> \/ actual_actions = <<>>
    THEN Zero
    ELSE QSub(Q(Cardinality(NameSet(task_actions) \cap NameSet(actual_actions)),
                Cardinality(NameSet(task_actions))),
              QMin(Q(5, 10),
                   Q(Cardinality(NameSet(actual_actions) \ NameSet(task_actions)), 10)))

CalculateTaskCompletion(binary_reward, task_actions, actual_actions) ==
    IF binary_reward = RewardOne
    THEN One
    ELSE IF task_actions = <<>> \/ actual_actions = <<>>
    THEN Zero
    ELSE LET task_action_names   == NameSet(task_actions)
             actual_action_names == NameSet(actual_actions)
             matching_actions    == Cardinality(task_action_names \cap actual_action_names)
             total_required      == Cardinality(task_action_names)
         IN  IF total_required = 0
             THEN Zero
             ELSE LET completion_ratio == Q(matching_actions, total_required)
                      wrong_actions    ==
                          Cardinality(actual_action_names \ task_action_names)
                      penalty          == QMin(Q(5, 10), Q(wrong_actions, 10))
                  IN  QMax(Zero, QSub(completion_ratio, penalty))

HedgingPhrases ==
    {"i think", "i believe", "probably", "might be", "could be"}

RecommendationPhrases ==
    {"i recommend", "you should", "i suggest", "better to"}

ConsequentialActions ==
    {"exchange_delivered_order_items", "return_delivered_order_items",
     "modify_pending_order_items", "cancel_pending_order"}

\* conversation[-5:]
LastFive(conversation) ==
    IF Len(conversation) <= 5
    THEN conversation
    ELSE SubSeq(conversation, Len(conversation) - 4, Len(conversation))

\* the penalty the message loop of _calculate_policy_adherence takes for one message
PolicyMessagePenalty(message, sc) ==
    IF message.role = "assistant" /\ Truthy(message.content)
    THEN QAdd(QAdd(IF HasAny(message.content, HedgingPhrases) THEN Q(1, 10) ELSE Zero,
                   IF HasAny(message.content, RecommendationPhrases)
                   THEN Q(1, 10) ELSE Zero),
              IF /\ HasAny(message.content, {"based on our records"})
                 /\ sc.tool_calls = <<>>
              THEN Q(2, 10) ELSE Zero)
    ELSE Zero

Confirmed(conversation) ==
    \E i \in 1..Len(LastFive(conversation)) :
        LET message == LastFive(conversation)[i]
        IN  /\ message.role = "user"
            /\ Truthy(message.content)
            /\ HasAny(message.content, {"yes"})

CalculatePolicyAdherence(sc, conversation, actual_actions) ==
    IF conversation = <<>>
    THEN Zero
    ELSE LET message_penalty ==
                 QSeqSum([i \in 1..Len(conversation) |->
                             PolicyMessagePenalty(conversation[i], sc)])
             action_penalty ==
                 QSeqSum([i \in 1..Len(actual_actions) |->
                             IF /\ actual_actions[i] \in ConsequentialActions
                                /\ ~Confirmed(conversation)
                             THEN Q(2, 10) ELSE Zero])
         IN  QMax(Zero, QSub(QSub(One, message_penalty), action_penalty))

\* the change of score the message loop of _calculate_user_satisfaction makes
\* for one message
SatisfactionMessageDelta(message) ==
    IF message.role = "assistant" /\ Truthy(message.content)
    THEN QAdd(QSub(IF HasAny(message.content,
                             {"i can help", "let me assist", "i understand", "thank you"})
                   THEN Q(5, 100) ELSE Zero,
                   IF HasAny(message.content,
                             {"i cannot", "unable to", "not possible", "sorry, but"})
                   THEN Q(1, 10) ELSE Zero),
              IF StrLen(message.content) < 20 THEN Q(-1, 10)
              ELSE IF StrLen(message.content) > 500 THEN Q(-5, 100)
              ELSE Zero)
    ELSE Zero

CalculateUserSatisfaction(sc, conversation) ==
    IF conversation = <<>>
    THEN Zero
    ELSE LET score ==
                 QAdd(One, QSeqSum([i \in 1..Len(conversation) |->
                                       SatisfactionMessageDelta(conversation[i])]))
             final ==
                 IF sc.transfer_to_human /\ Len(conversation) < 10
                 THEN QSub(score, Q(3, 10)) ELSE score
         IN  QMax(Zero, QMin(One, final))

\* _calculate_efficiency_score_from_tracker that never asks the tracker
CalculateEfficiencyScoreNeutral(sc, tr) ==
    Q(5, 10)

CalculateEfficiencyScoreFromTracker(sc, tr) ==
    IF ~sc.efficiency_tracker
    THEN Q(5, 10)
    ELSE CalculateMetrics(tr).overall_efficiency

TASK_COMPLETION_WEIGHT ==
    Q(4, 10)

EFFICIENCY_WEIGHT ==
    Q(3, 10)

POLICY_ADHERENCE_WEIGHT ==
    Q(2, 10)

USER_SATISFACTION_WEIGHT ==
    Q(1, 10)

\* a plausible slip: the last term of the weighted sum left out
OverallScoreNoSatisfaction(task_completion, efficiency, policy_adherence, user_satisfaction) ==
    QAdd(QAdd(QMul(task_completion, TASK_COMPLETION_WEIGHT),
              QMul(efficiency, EFFICIENCY_WEIGHT)),
         QMul(policy_adherence, POLICY_ADHERENCE_WEIGHT))

OverallScore(task_completion, efficiency, policy_adherence, user_satisfaction) ==
    QAdd(QAdd(QAdd(QMul(task_completion, TASK_COMPLETION_WEIGHT),
                   QMul(efficiency, EFFICIENCY_WEIGHT)),
              QMul(policy_adherence, POLICY_ADHERENCE_WEIGHT)),
         QMul(user_satisfaction, USER_SATISFACTION_WEIGHT))

CompositeScore(task_completion, efficiency, policy_adherence, user_satisfaction) ==
    [task_completion   |-> task_completion,
     efficiency        |-> efficiency,
     policy_adherence  |-> policy_adherence,
     user_satisfaction |-> user_satisfaction,
     overall_score     |->
         OverallScore(task_completion, efficiency, policy_adherence, user_satisfaction)]

CalculateCompositeScore(sc, tr, binary_reward, task_actions, actual_actions, conversation) ==
    CompositeScore(CalculateTaskCompletion(binary_reward, task_actions, actual_actions),
                   CalculateEfficiencyScoreFromTracker(sc, tr),
                   CalculatePolicyAdherence(sc, conversation, actual_actions),
                   CalculateUserSatisfaction(sc, conversation))

\* ------------------------------------------------------------------------
\* ErrorAnalyzer
\* ------------------------------------------------------------------------

PatternCategory(error_type) ==
    CASE error_type = "policy_rigid"       -> "rigid_interpretation"
      [] error_type = "premature_transfer" -> "premature_transfer"
      [] error_type = "tool_failure"       -> "tool_failure"
      [] error_type = "context_confusion"  -> "user_intent_misunderstanding"
      [] error_type = "policy_violation"   -> "policy_violation"

PatternSeverity(error_type) ==
    CASE error_type = "policy_rigid"       -> "medium"
      [] error_type = "premature_transfer" -> "high"
      [] error_type = "tool_failure"       -> "medium"
      [] error_type = "context_confusion"  -> "medium"
      [] error_type = "policy_violation"   -> "low"

\* An ErrorAnalysis: names holds the action names its description lists,
\* detail the pattern or message it reports.
Finding(category, severity, confidence, names, detail) ==
    [category |-> category, severity |-> severity, confidence |-> confidence,
     names |-> names, detail |-> detail]

RECURSIVE Flatten(_)
Flatten(ss) ==
    IF ss = <<>> THEN <<>> ELSE Head(ss) \o Flatten(Tail(ss))

\* re.search(pattern, None) raises TypeError
ConversationErrorsRaise(conversation) ==
    \E i \in 1..Len(conversation) :
        conversation[i].role = "assistant" /\ conversation[i].content = PyNone

AnalyzeConversationErrors(conversation) ==
    Flatten([i \in 1..Len(conversation) |->
        IF conversation[i].role = "assistant"
        THEN LET ms == PatternsMatching(conversation[i].content)
             IN  [k \in 1..Len(ms) |->
                     Finding(PatternCategory(ms[k][1]), PatternSeverity(ms[k][1]),
                             Q(8, 10), {}, ms[k][2])]
        ELSE <<>>])

\* a plausible slip: only the first missing name is reported
AnalyzeActionErrorsFirstOnly(task_actions, actual_actions) ==
    IF task_actions = <<>> \/ actual_actions = <<>>
    THEN <<>>
    ELSE LET missing_actions == NameSet(task_actions) \ NameSet(actual_actions)
             wrong_actions   == NameSet(actual_actions) \ NameSet(task_actions)
         IN  (IF missing_actions # {}
              THEN << Finding("missing_tools", "high", Q(9, 10),
                              {CHOOSE x \in missing_actions : TRUE}, "missing") >>
              ELSE <<>>)
             \o
             (IF wrong_actions # {}
              THEN << Finding("wrong_arguments", "medium", Q(8, 10),
                              wrong_actions, "unnecessary") >>
              ELSE <<>>)

AnalyzeActionErrors(task_actions, actual_actions) ==
    IF task_actions = <<>> \/ actual_actions = <<>>
    THEN <<>>
    ELSE LET task_action_names   == NameSet(task_actions)
             actual_action_names == NameSet(actual_actions)
             missing_actions     == task_action_names \ actual_action_names
             wrong_actions       == actual_action_names \ task_action_names
         IN  (IF missing_actions # {}
              THEN << Finding("missing_tools", "high", Q(9, 10),
                              missing_actions, "missing") >>
              ELSE <<>>)
             \o
             (IF wrong_actions # {}
              THEN << Finding("wrong_arguments", "medium", Q(8, 10),
                              wrong_actions, "unnecessary") >>
              ELSE <<>>)

\* content.lower() on a None content raises AttributeError
ToolErrorsRaise(conversation) ==
    \E i \in 1..Len(conversation) :
        conversation[i].role = "tool" /\ conversation[i].content = PyNone

AnalyzeToolErrors(actual_actions, conversation) ==
    Flatten([i \in 1..Len(conversation) |->
        IF /\ conversation[i].role = "tool"
           /\ HasAny(conversation[i].content, {"error", "failed"})
        THEN << Finding("tool_failure", "medium", Q(9, 10), {}, conversation[i].content) >>
        ELSE <<>>])

\* _analyze_goal_completion_errors with the HIGH band closed at one half
AnalyzeGoalCompletionErrorsInclusive(task_actions, actual_actions, conversation) ==
    IF task_actions # <<>> /\ actual_actions # <<>>
    THEN LET matching_actions == Cardinality(NameSet(task_actions) \cap NameSet(actual_actions))
             total_required   == Cardinality(NameSet(task_actions))
         IN  IF matching_actions > 0 /\ matching_actions < total_required
             THEN << Finding("goal_partial_completion",
                             IF QLe(Q(matching_actions, total_required), Q(5, 10))
                             THEN "high" ELSE "medium",
                             Q(9, 10), {}, "partial") >>
             ELSE <<>>
    ELSE <<>>

AnalyzeGoalCompletionErrors(task_actions, actual_actions, conversation) ==
    IF task_actions # <<>> /\ actual_actions # <<>>
    THEN LET matching_actions ==
                 Cardinality(NameSet(task_actions) \cap NameSet(actual_actions))
             total_required   == Cardinality(NameSet(task_actions))
         IN  IF matching_actions > 0 /\ matching_actions < total_required
             THEN LET completion_ratio == Q(matching_actions, total_required)
                  IN  << Finding("goal_partial_completion",
                                 IF QLt(completion_ratio, Q(5, 10)) THEN "high" ELSE "medium",
                                 Q(9, 10), {}, "partial") >>
             ELSE <<>>
    ELSE <<>>

\* error_info: None, or a dict with the keys it has; error and traceback are
\* what error_info.get('error', '') and error_info.get('traceback', '') give
NoInfo ==
    [kind |-> "none"]

ErrorInfo(error, traceback) ==
    [kind |-> "dict", keys |-> {"error", "traceback"},
     error |-> error, traceback |-> traceback]

\* a dict without the key 'error'
TracebackInfo(traceback) ==
    [kind |-> "dict", keys |-> {"traceback"}, error |-> "", traceback |-> traceback]

\* the dict {}
EmptyInfo ==
    [kind |-> "dict", keys |-> {}, error |-> "", traceback |-> ""]

AnalyzeSystemErrors(error_info) ==
    << Finding("runtime_error", "critical", One, {}, error_info.error) >>

\* the test of analyze_error with the message required to be non-empty
HasErrorNonEmpty(error_info) ==
    /\ error_info.kind = "dict"
    /\ "error" \in error_info.keys
    /\ error_info.error # ""

\* analyze_error's  if error_info and 'error' in error_info
HasError(error_info) ==
    /\ error_info.kind = "dict"
    /\ error_info.keys # {}
    /\ "error" \in error_info.keys

\* a plausible slip: the early return for successful tasks left out
SuccessReturnsEarlyNever(binary_reward) ==
    FALSE

\* analyze_error's  if binary_reward == 1.0: return []
SuccessReturnsEarly(binary_reward) ==
    binary_reward = RewardOne

AnalyzeErrorRaises(binary_reward, conversation) ==
    /\ ~SuccessReturnsEarly(binary_reward)
    /\ (ConversationErrorsRaise(conversation) \/ ToolErrorsRaise(conversation))

AnalyzeError(binary_reward, conversation, task_actions, actual_actions, error_info) ==
    IF SuccessReturnsEarly(binary_reward)
    THEN <<>>
    ELSE AnalyzeConversationErrors(conversation)
         \o AnalyzeActionErrors(task_actions, actual_actions)
         \o AnalyzeToolErrors(actual_actions, conversation)
         \o AnalyzeGoalCompletionErrors(task_actions, actual_actions, conversation)
         \o (IF HasError(error_info)
             THEN AnalyzeSystemErrors(error_info)
             ELSE <<>>)

GetErrorSummary(errors) ==
    [total_errors |-> Len(errors),
     by_severity  |->
         [sv \in {errors[i].severity : i \in 1..Len(errors)} |->
             Cardinality({i \in 1..Len(errors) : errors[i].severity = sv})]]

\* ------------------------------------------------------------------------
\* EnhancedEvaluator
\* ------------------------------------------------------------------------

\* has_trial: whether the attributes current_task_id / current_trial exist;
\* conversation_processed: "unset" while the attribute does not exist.
NewEvaluator ==
    [composite_scorer       |-> [NewScorer EXCEPT !.efficiency_tracker = TRUE],
     efficiency_tracker     |-> NewTracker,
     has_trial              |-> FALSE,
     current_task_id        |-> 0,
     current_trial          |-> 0,
     conversation_processed |-> "unset"]

\* start_evaluation without the reset of _conversation_processed
EvStartEvaluationKeepsGuard(ev, task_id, trial) ==
    [composite_scorer       |-> ScorerStartEvaluation(ev.composite_scorer),
     efficiency_tracker     |-> TrackerStartEvaluation(ev.efficiency_tracker),
     has_trial              |-> TRUE,
     current_task_id        |-> task_id,
     current_trial          |-> trial,
     conversation_processed |-> ev.conversation_processed]

EvStartEvaluation(ev, task_id, trial) ==
    [composite_scorer       |-> ScorerStartEvaluation(ev.composite_scorer),
     efficiency_tracker     |-> TrackerStartEvaluation(ev.efficiency_tracker),
     has_trial              |-> TRUE,
     current_task_id        |-> task_id,
     current_trial          |-> trial,
     conversation_processed |-> "false"]

EvRecordToolCall(ev, tool_name, success, duration) ==
    [ev EXCEPT !.composite_scorer = ScorerRecordToolCall(@, tool_name, success),
               !.efficiency_tracker = TrackerRecordToolCall(@, tool_name, success, duration)]

\* the evaluator once the scorer has recorded the turn and the tracker's
\* record_turn has returned or raised r
TurnRecorded(ev, message, r) ==
    [ev     |-> [ev EXCEPT !.composite_scorer = ScorerRecordTurn(@, message),
                           !.efficiency_tracker = r.tracker],
     raised |-> r.raised]

\* the evaluator after the call, and whether the call raised
EvRecordTurn(ev, message, tokens_used) ==
    TurnRecorded(ev, message,
                 TrackerRecordTurn(ev.efficiency_tracker, message, tokens_used))

RECURSIVE RecordToolCalls(_, _)
RecordToolCalls(ev, names) ==
    IF names = <<>>
    THEN ev
    ELSE RecordToolCalls(EvRecordToolCall(ev, Head(names), TRUE, 0), Tail(names))

\* a replay that takes a tool response for no call of its own
RecordToolResponseIgnored(ev, message) ==
    ev

\* a tool response stands for one more tool call
RecordToolResponse(ev, message) ==
    IF message.role = "tool"
    THEN EvRecordToolCall(ev, "unknown_tool", TRUE, 0)
    ELSE ev

\* the loop of _process_conversation over the messages left: r is what
\* record_turn gave for the first of them
RECURSIVE ReplayMessages(_, _)
RECURSIVE ReplayRest(_, _)
ReplayRest(r, messages) ==
    IF r.raised
    THEN r
    ELSE ReplayMessages(
             RecordToolResponse(RecordToolCalls(r.ev, Head(messages).tool_calls),
                                Head(messages)),
             Tail(messages))

ReplayMessages(ev, messages) ==
    IF messages = <<>>
    THEN [ev |-> [ev EXCEPT !.conversation_processed = "true"], raised |-> FALSE]
    ELSE ReplayRest(EvRecordTurn(ev, Head(messages), 0), messages)

\* _process_conversation without its replay guard
AlreadyProcessedNever(ev) ==
    FALSE

AlreadyProcessed(ev) ==
    ev.conversation_processed = "true"

ProcessConversation(ev, conversation) ==
    IF conversation = <<>> \/ AlreadyProcessed(ev)
    THEN [ev |-> ev, raised |-> FALSE]
    ELSE ReplayMessages(ev, conversation)

NoResult ==
    [kind |-> "none"]

\* a method without a return statement has returned
ReturnedNone ==
    [kind |-> "returned"]

RaisedResult ==
    [kind |-> "raised"]

\* EnhancedEvaluationResult
EvaluationResult(ev, binary_reward, composite_score, errors) ==
    [kind               |-> "result",
     binary_reward      |-> binary_reward,
     composite_score    |-> composite_score,
     errors             |-> errors,
     error_summary      |-> GetErrorSummary(errors),
     efficiency_metrics |-> CalculateMetrics(ev.efficiency_tracker),
     task_id            |-> ev.current_task_id,
     trial              |-> ev.current_trial]

\* evaluate_task after _process_conversation has returned or raised p
EvaluateProcessed(p, binary_reward, conversation, task_actions, actual_actions, error_info) ==
    IF \/ p.raised
       \/ AnalyzeErrorRaises(binary_reward, conversation)
       \/ ~p.ev.has_trial
    THEN [ev |-> p.ev, result |-> RaisedResult]
    ELSE [ev |-> p.ev,
          result |->
              EvaluationResult(p.ev, binary_reward,
                  CalculateCompositeScore(p.ev.composite_scorer, p.ev.efficiency_tracker,
                                          binary_reward, task_actions, actual_actions,
                                          conversation),
                  AnalyzeError(binary_reward, conversation, task_actions,
                               actual_actions, error_info))]

\* The evaluator after evaluate_task and what the call returned: a result,
\* or RaisedResult when the replay, the error analysis or the read of the
\* unset current_task_id raised.
EvaluateTask(ev, binary_reward, conversation, task_actions, actual_actions, error_info) ==
    EvaluateProcessed(ProcessConversation(ev, conversation), binary_reward,
                      conversation, task_actions, actual_actions, error_info)

\* ------------------------------------------------------------------------
\* run(): the unit of work _run, and display_metrics
\* ------------------------------------------------------------------------

\* env.tasks: the task indices of the environment, and each task's required
\* actions (isolated_env.task.actions, by name)
EnvTasks ==
    {0, 1}

TaskActions(idx) ==
    IF idx = 0
    THEN <<"get_order_details", "cancel_pending_order">>
    ELSE <<"cancel_pending_order">>

\* What agent.solve does in one unit: it returns a SolveResult (reward,
\* messages, info) having executed some actions in the environment, or it
\* raises an Exception e, of which the code reads str(e).
Returned(reward, messages, actions) ==
    [kind |-> "return", reward |-> reward, messages |-> messages, actions |-> actions]

Raises(type, message) ==
    [kind |-> "raise", type |-> type, message |-> message]

AgentInfo ==
    [kind |-> "agent", error |-> "", traceback |-> ""]

\* traceback.format_exc() inside an except block
FormatExc ==
    "Traceback (most recent call last)"

\* str(e) of the AttributeError that evaluate_task raises in the try block
EvaluationErrorMessage ==
    "'NoneType' object has no attribute 'lower'"

\* a plausible slip: a handler narrower than Exception
ExceptionCaughtValueErrorOnly(type) ==
    type = "ValueError"

\* except Exception as e: every Exception instance is caught
ExceptionCaught(type) ==
    TRUE

EnvRunResult(task_id, reward, info, traj, trial, enhanced_evaluation) ==
    [task_id |-> task_id, reward |-> reward, info |-> info, traj |-> traj,
     trial |-> trial, enhanced_evaluation |-> enhanced_evaluation]

\* a plausible slip: the traceback is left out of info
FailedUnitResultNoTraceback(e0, idx, i, message) ==
    LET info == ErrorInfo(message, "")
        r    == EvaluateTask(e0, 0, <<>>, TaskActions(idx), <<>>, info)
    IN  EnvRunResult(idx, 0, info, <<>>, i, r.result)

\* the except branch of _run, entered with the evaluator as the try block left it
FailedUnitResult(e0, idx, i, message) ==
    LET info == ErrorInfo(message, FormatExc)
        r    == EvaluateTask(e0, 0, <<>>, TaskActions(idx), <<>>, info)
    IN  EnvRunResult(idx, 0, info, <<>>, i, r.result)

\* The try block of _run: the result it builds, or the exception it raises
\* (that of agent.solve, or that of evaluate_task, r) with the evaluator as
\* the block leaves it.
TryResult(result) ==
    [raised |-> FALSE, result |-> result]

TryRaised(e0, type, message) ==
    [raised |-> TRUE, ev |-> e0, type |-> type, message |-> message]

TryEvaluated(r, idx, i, outcome) ==
    IF r.result.kind = "raised"
    THEN TryRaised(r.ev, "AttributeError", EvaluationErrorMessage)
    ELSE TryResult(EnvRunResult(idx, outcome.reward, AgentInfo, outcome.messages,
                                i, r.result))

TryBlock(e0, idx, i, outcome) ==
    IF outcome.kind = "raise"
    THEN TryRaised(e0, outcome.type, outcome.message)
    ELSE TryEvaluated(EvaluateTask(e0, outcome.reward, outcome.messages,
                                   TaskActions(idx), outcome.actions, NoInfo),
                      idx, i, outcome)

\* the except clause: NoResult when the exception is not caught and leaves _run
AfterTry(t, idx, i) ==
    IF ~t.raised
    THEN t.result
    ELSE IF ExceptionCaught(t.type)
         THEN FailedUnitResult(t.ev, idx, i, t.message)
         ELSE NoResult

\* the body of _run from the fresh evaluator to the result it appends
UnitResult(idx, i, outcome) ==
    AfterTry(TryBlock(EvStartEvaluation(NewEvaluator, idx, i), idx, i, outcome), idx, i)

\* math.comb
RECURSIVE Comb(_, _)
Comb(n, k) ==
    IF k > n THEN 0
    ELSE IF k = 0 THEN 1
    ELSE (Comb(n - 1, k - 1) * n) \div k

\* a plausible slip: exact comparison with 1
IsSuccessfulExact(reward) ==
    reward = RewardOne

\* (1 - 1e-6) <= reward <= (1 + 1e-6), in units of 1e-7
IsSuccessful(reward) ==
    RewardOne - 10 <= reward /\ reward <= RewardOne + 10

\* the loop that fills c_per_task_id, over the results left
RECURSIVE CPerTaskId(_, _)
CPerTaskId(rs, c_per_task_id) ==
    IF rs = <<>>
    THEN c_per_task_id
    ELSE LET r   == Head(rs)
             inc == IF IsSuccessful(r.reward) THEN 1 ELSE 0
         IN  CPerTaskId(Tail(rs),
                 IF r.task_id \notin DOMAIN c_per_task_id
                 THEN [t \in DOMAIN c_per_task_id \cup {r.task_id} |->
                          IF t = r.task_id THEN inc ELSE c_per_task_id[t]]
                 ELSE [c_per_task_id EXCEPT ![r.task_id] = @ + inc])

RECURSIVE QSetSum(_, _)
QSetSum(S, f) ==
    IF S = {}
    THEN Zero
    ELSE LET x == CHOOSE y \in S : TRUE
         IN  QAdd(f[x], QSetSum(S \ {x}, f))

PassHatKs(rs) ==
    LET num_trials    == Cardinality({rs[j].trial : j \in 1..Len(rs)})
        c_per_task_id == CPerTaskId(rs, <<>>)
    IN  [k \in 1..num_trials |->
            QMul(QSetSum(DOMAIN c_per_task_id,
                         [t \in DOMAIN c_per_task_id |->
                             Q(Comb(c_per_task_id[t], k), Comb(num_trials, k))]),
                 Q(1, Cardinality(DOMAIN c_per_task_id)))]

\* what display_metrics computes (and prints) for a non-empty result list
DisplayMetrics(rs) ==
    LET n == Len(rs)
    IN  [avg_reward          |->
             Q(SeqSum([j \in 1..n |-> rs[j].reward]), RewardOne * n),
         avg_composite_score |->
             QMul(QSeqSum([j \in 1..n |->
                     rs[j].enhanced_evaluation.composite_score.overall_score]), Q(1, n)),
         avg_efficiency      |->
             QMul(QSeqSum([j \in 1..n |->
                     rs[j].enhanced_evaluation.efficiency_metrics.overall_efficiency]),
                  Q(1, n)),
         transfer_rate       |->
             Q(Cardinality({j \in 1..n :
                   rs[j].enhanced_evaluation.efficiency_metrics.transfer_to_human}), n),
         avg_errors_per_task |->
             Q(SeqSum([j \in 1..n |-> Len(rs[j].enhanced_evaluation.errors)]), n),
         pass_hat_ks         |-> PassHatKs(rs)]

\* ------------------------------------------------------------------------
\* State
\* ------------------------------------------------------------------------

VARIABLES
    ev,          \* the EnhancedEvaluator under test (SpecEval, SpecActions)
    result,      \* what the last call on ev returned or raised, until consumed
    call,        \* the last call on ev: its arguments and ev as it was before
    ops,         \* recording calls made on ev since it was constructed or last started
    config,      \* run(): the RunConfig
    main,        \* run(): where the main thread is
    i,           \* run(): the trial index of the for loop
    idxs,        \* run(): the worklist of the current trial
    pc,          \* _run: where each unit of the current trial is
    unit_result, \* _run: the local variable result of each unit
    data,        \* _run: the local variable data of each unit
    lock,        \* the position of the unit holding the lock, 0 when free
    ckpt,        \* the checkpoint file
    results,     \* run(): the list results
    metrics,     \* what display_metrics computed
    solved,      \* what agent.solve did in each unit of the current trial
    history      \* the worklist and solved of each finished trial

evalVars ==
    <<ev, result, call, ops>>

runVars ==
    <<config, main, i, idxs, pc, unit_result, data, lock, ckpt, results, metrics,
      solved, history>>

vars ==
    <<ev, result, call, ops, config, main, i, idxs, pc, unit_result, data, lock,
      ckpt, results, metrics, solved, history>>

NoCall ==
    [op |-> "none"]

NoMetrics ==
    [kind |-> "none"]

NoConfig ==
    [task_ids |-> <<>>, start_index |-> 0, end_index |-> 0, num_trials |-> 0,
     max_concurrency |-> 0, shuffle |-> FALSE]

AbsentFile ==
    [exists |-> FALSE, records |-> <<>>]

EvalIdle ==
    /\ ev = NewEvaluator
    /\ result = NoResult
    /\ call = NoCall
    /\ ops = 0

RunIdle ==
    /\ config = NoConfig
    /\ main = "idle"
    /\ i = 0
    /\ idxs = <<>>
    /\ pc = <<>>
    /\ unit_result = <<>>
    /\ data = <<>>
    /\ lock = 0
    /\ ckpt = AbsentFile
    /\ results = <<>>
    /\ metrics = NoMetrics
    /\ solved = <<>>
    /\ history = <<>>

\* ------------------------------------------------------------------------
\* The evaluator as an object: one action per method (SpecEval)
\* ------------------------------------------------------------------------

MaxOps ==
    2

MsgUserYes ==
    Msg("user", TxtYes, <<>>)

MsgDone ==
    Msg("assistant", TxtDone, <<>>)

MsgTransfer ==
    Msg("assistant", TxtTransfer, <<>>)

MsgOpinion ==
    Msg("assistant", TxtOpinion, <<>>)

MsgCallNone ==
    Msg("assistant", PyNone, <<"cancel_pending_order">>)

MsgCallEmpty ==
    Msg("assistant", TxtEmpty, <<"get_order_details">>)

MsgCancel ==
    Msg("assistant", TxtEmpty, <<"cancel_pending_order">>)

MsgToolError ==
    Msg("tool", TxtToolError, <<>>)

MsgToolOk ==
    Msg("tool", TxtOk, <<>>)

\* the trajectories evaluate_task is given
Trajectories ==
    {<<>>,
     <<MsgUserYes, MsgDone>>,
     <<MsgUserYes, MsgTransfer>>,
     <<MsgOpinion>>,
     <<MsgUserYes, MsgCallEmpty, MsgToolOk, MsgDone>>,
     <<MsgUserYes, MsgCallNone, MsgToolError>>,
     <<MsgCallEmpty, MsgToolError, MsgTransfer>>,
     <<MsgCancel, MsgToolOk, MsgUserYes>>,
     <<MsgUserYes, MsgCancel, MsgToolOk, MsgDone, MsgDone, MsgDone, MsgDone>>}

\* (message, tokens_used) pairs record_turn is called with by hand
ManualTurns ==
    {<<MsgUserYes, 0>>, <<MsgTransfer, 0>>, <<MsgDone, 5>>, <<MsgCallNone, 0>>,
     <<MsgCallEmpty, 0>>}

\* (tool_name, success) pairs record_tool_call is called with by hand
ManualToolCalls ==
    {<<"cancel_pending_order", TRUE>>, <<"lookup_weather", FALSE>>}

EvalTaskActions ==
    {<<>>, <<"cancel_pending_order">>, <<"get_order_details", "cancel_pending_order">>}

EvalActualActions ==
    {<<>>, <<"cancel_pending_order">>, <<"get_order_details">>}

EvalRewards ==
    {0, RewardOne}

EvalInfos ==
    {NoInfo, ErrorInfo("boom", "Traceback")}

EvalTrials ==
    {<<0, 0>>, <<1, 1>>}

InitEval ==
    /\ EvalIdle
    /\ RunIdle

StartEvaluation ==
    /\ result = NoResult
    /\ \E t \in EvalTrials :
          /\ ev' = EvStartEvaluation(ev, t[1], t[2])
          /\ call' = [op |-> "start_evaluation", task_id |-> t[1], trial |-> t[2],
                      before |-> ev]
    /\ result' = ReturnedNone
    /\ ops' = 0
    /\ UNCHANGED runVars

RecordTurn ==
    /\ result = NoResult
    /\ ops < MaxOps
    /\ \E mt \in ManualTurns :
          LET r == EvRecordTurn(ev, mt[1], mt[2])
          IN  /\ ev' = r.ev
              /\ result' = IF r.raised THEN RaisedResult ELSE ReturnedNone
              /\ call' = [op |-> "record_turn", message |-> mt[1],
                          tokens_used |-> mt[2], before |-> ev]
    /\ ops' = ops + 1
    /\ UNCHANGED runVars

RecordToolCall ==
    /\ result = NoResult
    /\ ops < MaxOps
    /\ \E tc \in ManualToolCalls :
          /\ ev' = EvRecordToolCall(ev, tc[1], tc[2], 0)
          /\ call' = [op |-> "record_tool_call", tool_name |-> tc[1],
                      success |-> tc[2], before |-> ev]
    /\ result' = ReturnedNone
    /\ ops' = ops + 1
    /\ UNCHANGED runVars

StartResponse ==
    /\ result = NoResult
    /\ ops < MaxOps
    /\ ev' = [ev EXCEPT !.efficiency_tracker = TrackerStartResponse(@)]
    /\ call' = [op |-> "start_response", before |-> ev]
    /\ result' = ReturnedNone
    /\ ops' = ops + 1
    /\ UNCHANGED runVars

EndResponse ==
    /\ result = NoResult
    /\ ops < MaxOps
    /\ ev' = [ev EXCEPT !.efficiency_tracker = TrackerEndResponse(@)]
    /\ call' = [op |-> "end_response", before |-> ev]
    /\ result' = ReturnedNone
    /\ ops' = ops + 1
    /\ UNCHANGED runVars

DoEvaluateTask(binary_reward, conversation, task_actions, actual_actions, error_info) ==
    LET r == EvaluateTask(ev, binary_reward, conversation, task_actions,
                          actual_actions, error_info)
    IN  /\ ev' = r.ev
        /\ result' = r.result
        /\ call' = [op |-> "evaluate_task", binary_reward |-> binary_reward,
                    conversation |-> conversation, task_actions |-> task_actions,
                    actual_actions |-> actual_actions, error_info |-> error_info,
                    before |-> ev]
        /\ ops' = ops + 1
        /\ UNCHANGED runVars

EvaluateTaskCall ==
    /\ result = NoResult
    /\ ops < MaxOps
    /\ \E binary_reward \in EvalRewards, conversation \in Trajectories,
          task_actions \in EvalTaskActions, actual_actions \in EvalActualActions,
          error_info \in EvalInfos :
          DoEvaluateTask(binary_reward, conversation, task_actions,
                         actual_actions, error_info)

\* efficiency_tracker.calculate_metrics() called by hand: nothing is recorded
CalculateMetricsCall ==
    /\ result = NoResult
    /\ result' = [kind |-> "metrics",
                  metrics |-> CalculateMetrics(ev.efficiency_tracker)]
    /\ call' = [op |-> "calculate_metrics", before |-> ev]
    /\ UNCHANGED <<ev, ops, runVars>>

\* the caller takes the returned value (or handles the exception)
ConsumeResult ==
    /\ result # NoResult
    /\ result' = NoResult
    /\ call' = NoCall
    /\ UNCHANGED <<ev, ops, runVars>>

NextEval ==
    \/ StartEvaluation
    \/ RecordTurn
    \/ RecordToolCall
    \/ StartResponse
    \/ EndResponse
    \/ EvaluateTaskCall
    \/ CalculateMetricsCall
    \/ ConsumeResult

SpecEval ==
    InitEval /\ [][NextEval]_vars

\* ------------------------------------------------------------------------
\* SpecActions: evaluate_task over every pair of action lists
\* ------------------------------------------------------------------------

ActionNames ==
    <<"get_user_details", "get_order_details", "cancel_pending_order",
      "modify_user_address">>

\* one required action followed by six that no task of ActionNames requires
WideActions ==
    <<"get_user_details", "calculate", "think", "list_all_product_types",
      "get_product_details", "modify_pending_order_items", "transfer_to_human_agents">>

\* the action lists: every selection of names, in the order of ActionNames,
\* and WideActions
ActionLists ==
    {SelectSeq(ActionNames, LAMBDA a : a \in S) : S \in SUBSET NameSet(ActionNames)}
        \cup {WideActions}

ActionRewards ==
    {0, RewardOne \div 2, RewardOne - 5, RewardOne}

ActionTrajectories ==
    {<<>>, <<MsgUserYes, MsgCallEmpty, MsgToolOk, MsgDone>>}

EvaluateActionsCall ==
    /\ result = NoResult
    /\ ops < MaxOps
    /\ \E binary_reward \in ActionRewards, conversation \in ActionTrajectories,
          task_actions \in ActionLists, actual_actions \in ActionLists :
          DoEvaluateTask(binary_reward, conversation, task_actions,
                         actual_actions, NoInfo)

NextActions ==
    \/ StartEvaluation
    \/ EvaluateActionsCall
    \/ ConsumeResult

SpecActions ==
    InitEval /\ [][NextActions]_vars

\* ------------------------------------------------------------------------
\* Spec: run() with its worker pool, lock and checkpoint file
\* ------------------------------------------------------------------------

MaxTrials ==
    2

MaxConcurrency ==
    2

Config(task_ids, start_index, end_index, num_trials, max_concurrency, shuffle) ==
    [task_ids |-> task_ids, start_index |-> start_index, end_index |-> end_index,
     num_trials |-> num_trials, max_concurrency |-> max_concurrency,
     shuffle |-> shuffle]

\* task selections: (task_ids, start_index, end_index); task_ids <<>> is None
TaskSelections ==
    {<< <<>>, 0, -1 >>, << <<>>, 1, 5 >>, << <<1, 0>>, 0, -1 >>, << <<1, 1>>, 0, -1 >>}

\* serial and concurrent runs of every selection; shuffled runs of the ranges
RunConfigs ==
    {cfg \in {Config(sel[1], sel[2], sel[3], num_trials, max_concurrency, shuffle) :
                 sel \in TaskSelections, num_trials \in 1..MaxTrials,
                 max_concurrency \in {1, MaxConcurrency}, shuffle \in BOOLEAN} :
        cfg.shuffle => cfg.task_ids = <<>>}

\* list(range(start, stop))
RangeList(start, stop) ==
    [k \in 1..(stop - start) |-> start + k - 1]

\* end_index as run() computes it, and idxs before any shuffle
Worklist(cfg) ==
    LET end_index == IF cfg.end_index = -1
                     THEN Cardinality(EnvTasks)
                     ELSE IF cfg.end_index < Cardinality(EnvTasks)
                          THEN cfg.end_index ELSE Cardinality(EnvTasks)
    IN  IF cfg.task_ids # <<>>
        THEN cfg.task_ids
        ELSE RangeList(cfg.start_index, end_index)

\* a plausible slip: drawing with replacement, [random.choice(w) for _ in w]
ShufflesWithReplacement(w) ==
    {[p \in 1..Len(w) |-> w[f[p]]] : f \in [1..Len(w) -> 1..Len(w)]}

\* the orders random.shuffle can leave a list in
Shuffles(w) ==
    {[p \in 1..Len(w) |-> w[f[p]]] :
        f \in {g \in [1..Len(w) -> 1..Len(w)] :
                  \A x, y \in 1..Len(w) : g[x] = g[y] => x = y}}

\* what agent.solve may do on a task; the agent of a sequential run may also
\* return, on task 1, a trajectory with an assistant message whose content is
\* None
Outcomes(idx) ==
    IF idx = 0
    THEN {Returned(RewardOne, <<MsgUserYes, MsgDone>>, TaskActions(idx)),
          Returned(0, <<MsgUserYes, MsgTransfer>>, <<>>),
          Raises("ValueError", "boom")}
    ELSE {Returned(RewardOne, <<MsgUserYes, MsgDone>>, TaskActions(idx)),
          Raises("RuntimeError", "")}
         \cup (IF config.max_concurrency = 1
               THEN {Returned(RewardOne, <<MsgUserYes, MsgCallNone, MsgToolOk>>,
                              TaskActions(idx))}
               ELSE {})

NoOutcome ==
    [kind |-> "none"]

\* a plausible slip: the file is read and written without the lock
LockAlwaysAvailable(l) ==
    TRUE

\* with lock: only one thread at a time is inside the block
LockAvailable(l) ==
    l = 0

\* a plausible slip: results = res
ExtendResultsOverwrite(rs, res) ==
    res

\* results.extend(res)
ExtendResults(rs, res) ==
    rs \o res

Units ==
    1..Len(idxs)

\* worker threads that are inside _run
Running ==
    Cardinality({q \in Units : pc[q] \in {"solved", "locked"}})

InitRun ==
    /\ EvalIdle
    /\ config \in RunConfigs
    /\ main = "loop"
    /\ i = 0
    /\ idxs = <<>>
    /\ pc = <<>>
    /\ unit_result = <<>>
    /\ data = <<>>
    /\ lock = 0
    /\ ckpt = AbsentFile
    /\ results = <<>>
    /\ metrics = NoMetrics
    /\ solved = <<>>
    /\ history = <<>>

\* one pass of the for loop up to the submission of the units to the pool
StartTrial ==
    /\ main = "loop"
    /\ i < config.num_trials
    /\ \E w \in (IF config.shuffle
                 THEN Shuffles(Worklist(config))
                 ELSE {Worklist(config)}) :
          /\ idxs' = w
          /\ pc' = [p \in 1..Len(w) |-> "queued"]
          /\ unit_result' = [p \in 1..Len(w) |-> NoResult]
          /\ data' = [p \in 1..Len(w) |-> <<>>]
          /\ solved' = [p \in 1..Len(w) |-> NoOutcome]
    /\ main' = "pool"
    /\ UNCHANGED <<evalVars, config, i, lock, ckpt, results, metrics, history>>

\* a free worker takes the next unit and runs _run up to the lock; an
\* exception that leaves _run is held by the unit's future
UnitSolve(p) ==
    /\ main = "pool"
    /\ pc[p] = "queued"
    /\ \A q \in 1..(p - 1) : pc[q] # "queued"
    /\ Running < config.max_concurrency
    /\ \E o \in Outcomes(idxs[p]) :
          /\ solved' = [solved EXCEPT ![p] = o]
          /\ unit_result' = [unit_result EXCEPT ![p] = UnitResult(idxs[p], i, o)]
          /\ pc' = [pc EXCEPT ![p] =
                       IF unit_result'[p] = NoResult THEN "failed" ELSE "solved"]
    /\ UNCHANGED <<evalVars, config, main, i, idxs, data, lock, ckpt, results,
                   metrics, history>>

\* with lock: ... data = json.load(f) if the file exists, else []
UnitAcquire(p) ==
    /\ main = "pool"
    /\ pc[p] = "solved"
    /\ LockAvailable(lock)
    /\ lock' = p
    /\ data' = [data EXCEPT ![p] = IF ckpt.exists THEN ckpt.records ELSE <<>>]
    /\ pc' = [pc EXCEPT ![p] = "locked"]
    /\ UNCHANGED <<evalVars, config, main, i, idxs, unit_result, ckpt, results,
                   metrics, solved, history>>

\* a plausible slip: lock.acquire() without a release on this path
UnitWriteKeepsLock(p) ==
    /\ main = "pool"
    /\ pc[p] = "locked"
    /\ ckpt' = [exists |-> TRUE, records |-> Append(data[p], unit_result[p])]
    /\ data' = [data EXCEPT ![p] = <<>>]
    /\ pc' = [pc EXCEPT ![p] = "done"]
    /\ UNCHANGED <<evalVars, config, main, i, idxs, unit_result, results,
                   metrics, solved, history, lock>>

\* a plausible slip: json.dump([result.model_dump()] + data, f)
UnitWritePrepend(p) ==
    /\ main = "pool"
    /\ pc[p] = "locked"
    /\ ckpt' = [exists |-> TRUE, records |-> <<unit_result[p]>> \o data[p]]
    /\ lock' = IF lock = p THEN 0 ELSE lock
    /\ data' = [data EXCEPT ![p] = <<>>]
    /\ pc' = [pc EXCEPT ![p] = "done"]
    /\ UNCHANGED <<evalVars, config, main, i, idxs, unit_result, results,
                   metrics, solved, history>>

\* json.dump(data + [result.model_dump()], f), the lock is released, _run returns
UnitWrite(p) ==
    /\ main = "pool"
    /\ pc[p] = "locked"
    /\ ckpt' = [exists |-> TRUE, records |-> Append(data[p], unit_result[p])]
    /\ lock' = IF lock = p THEN 0 ELSE lock
    /\ data' = [data EXCEPT ![p] = <<>>]
    /\ pc' = [pc EXCEPT ![p] = "done"]
    /\ UNCHANGED <<evalVars, config, main, i, idxs, unit_result, results,
                   metrics, solved, history>>

\* list(executor.map(_run, idxs)) has every unit's outcome: it re-raises a
\* unit's exception, else results.extend(res) and the loop goes on
\* a plausible slip: the pool is left without waiting for its workers
\* (shutdown(wait=False) and results gathered from what has finished)
EndTrialNoBarrier ==
    /\ main = "pool"
    /\ \E p \in Units : pc[p] = "done"
    /\ results' = ExtendResults(results,
                                SelectSeq(unit_result, LAMBDA r : r # NoResult))
    /\ history' = Append(history, [idxs |-> idxs, solved |-> solved])
    /\ i' = i + 1
    /\ main' = IF i + 1 < config.num_trials THEN "loop" ELSE "display"
    /\ idxs' = <<>>
    /\ pc' = <<>>
    /\ unit_result' = <<>>
    /\ data' = <<>>
    /\ solved' = <<>>
    /\ UNCHANGED <<evalVars, config, lock, ckpt, metrics>>

EndTrial ==
    /\ main = "pool"
    /\ \A p \in Units : pc[p] \in {"done", "failed"}
    /\ IF \E p \in Units : pc[p] = "failed"
       THEN /\ main' = "raised"
            /\ UNCHANGED <<i, idxs, pc, unit_result, data, results, solved, history>>
       ELSE /\ results' = ExtendResults(results, unit_result)
            /\ history' = Append(history, [idxs |-> idxs, solved |-> solved])
            /\ i' = i + 1
            /\ main' = IF i + 1 < config.num_trials THEN "loop" ELSE "display"
            /\ idxs' = <<>>
            /\ pc' = <<>>
            /\ unit_result' = <<>>
            /\ data' = <<>>
            /\ solved' = <<>>
    /\ UNCHANGED <<evalVars, config, lock, ckpt, metrics>>

\* display_metrics(results)
Display ==
    /\ main = "display"
    /\ metrics' = DisplayMetrics(results)
    /\ main' = "save"
    /\ UNCHANGED <<evalVars, config, i, idxs, pc, unit_result, data, lock, ckpt,
                   results, solved, history>>

\* the final json.dump of results to the checkpoint path
SaveResults ==
    /\ main = "save"
    /\ ckpt' = [exists |-> TRUE, records |-> results]
    /\ main' = "done"
    /\ UNCHANGED <<evalVars, config, i, idxs, pc, unit_result, data, lock,
                   results, metrics, solved, history>>

Next ==
    \/ StartTrial
    \/ \E p \in Units : UnitSolve(p)
    \/ \E p \in Units : UnitAcquire(p)
    \/ \E p \in Units : UnitWrite(p)
    \/ EndTrial
    \/ Display
    \/ SaveResults

Spec ==
    InitRun /\ [][Next]_vars

\* agent.solve returns or raises in the unit a worker has taken from the
\* queue: the step of UnitSolve as the position of the unit shows it
SolveReturns ==
    \E p \in Units :
        /\ main = "pool"
        /\ pc[p] = "queued"
        /\ \A q \in 1..(p - 1) : pc[q] # "queued"
        /\ Running < config.max_concurrency
        /\ pc' \in {[pc EXCEPT ![p] = "solved"], [pc EXCEPT ![p] = "failed"]}

\* display_metrics returns: the step of Display as the position of the main
\* thread shows it
DisplayReturns ==
    main = "display" /\ main' = "save"

\* The run under the scheduling the code relies on: the main thread goes on
\* whenever it can, a worker that can take the lock or holds it goes on, and
\* every call of agent.solve returns or raises.
RunFairness ==
    /\ WF_vars(StartTrial)
    /\ WF_pc(SolveReturns)
    /\ WF_vars(\E p \in Units : UnitAcquire(p))
    /\ WF_vars(\E p \in Units : UnitWrite(p))
    /\ WF_vars(EndTrial)
    /\ WF_main(DisplayReturns)
    /\ WF_vars(SaveResults)

SpecLive ==
    InitRun /\ [][Next]_vars /\ RunFairness

\* ------------------------------------------------------------------------
\* SpecMetrics: display_metrics over the result lists of finished runs
\* ------------------------------------------------------------------------

MaxMetricTrials ==
    3

MetricWorklists ==
    {<<0>>, <<0, 1>>}

\* rewards: failure, success, and a float within 1e-6 of 1.0
MetricRewards ==
    {0, RewardOne - 5, RewardOne}

\* the results of a run of num_trials trials of worklist w whose unit at
\* position p of trial t returned reward rw[t][p]
RunResults(w, num_trials, rw) ==
    Flatten([t \in 1..num_trials |->
        [p \in 1..Len(w) |->
            UnitResult(w[p], t - 1,
                       Returned(rw[t][p], <<MsgUserYes, MsgDone>>, TaskActions(w[p])))]])

InitMetrics ==
    /\ EvalIdle
    /\ config = NoConfig
    /\ main = "display"
    /\ i = 0
    /\ idxs = <<>>
    /\ pc = <<>>
    /\ unit_result = <<>>
    /\ data = <<>>
    /\ lock = 0
    /\ ckpt = AbsentFile
    /\ \E w \in MetricWorklists, num_trials \in 1..MaxMetricTrials :
          \E rw \in [1..num_trials -> [1..Len(w) -> MetricRewards]] :
              results = RunResults(w, num_trials, rw)
    /\ metrics = NoMetrics
    /\ solved = <<>>
    /\ history = <<>>

NextMetrics ==
    \/ Display
    \/ SaveResults

SpecMetrics ==
    InitMetrics /\ [][NextMetrics]_vars

\* ------------------------------------------------------------------------
\* SpecInfo: evaluate_task over every shape of error_info
\* ------------------------------------------------------------------------

ErrorInfos ==
    {NoInfo, EmptyInfo, TracebackInfo("Traceback"), ErrorInfo("", "Traceback"),
     ErrorInfo("boom", "Traceback")}

EvaluateInfoCall ==
    /\ result = NoResult
    /\ ops < MaxOps
    /\ \E binary_reward \in EvalRewards, conversation \in Trajectories,
          task_actions \in EvalTaskActions, actual_actions \in EvalActualActions,
          error_info \in ErrorInfos :
          DoEvaluateTask(binary_reward, conversation, task_actions,
                         actual_actions, error_info)

NextInfo ==
    \/ StartEvaluation
    \/ EvaluateInfoCall
    \/ ConsumeResult

SpecInfo ==
    InitEval /\ [][NextInfo]_vars

\* ------------------------------------------------------------------------
\* SpecTracker: calculate_metrics after sessions of every length band
\* ------------------------------------------------------------------------

\* turn counts and tool-call counts on both sides of every step of the scores
TurnCounts ==
    {0, 1, 20, 21, 40, 41, 60, 61}

ToolCallCounts ==
    {0, 1, 10, 11, 20, 21, 30, 31}

FailedCounts ==
    {0, 1, 10}

\* n calls of record_turn with the user message MsgUserYes and no token
\* count: each adds one turn to the scorer and to the tracker and the
\* estimated tokens to the tracker, and, the role being user, nothing else
AfterUserTurns(e, n) ==
    [e EXCEPT !.composite_scorer.conversation_turns = @ + n,
              !.efficiency_tracker.conversation_turns = @ + n,
              !.efficiency_tracker.total_tokens = @ + n * EstimateTokens(MsgUserYes)]

\* n calls of record_tool_call, the first failed of them unsuccessful
RECURSIVE AfterToolCalls(_, _, _)
AfterToolCalls(e, n, failed) ==
    IF n = 0
    THEN e
    ELSE EvRecordToolCall(AfterToolCalls(e, n - 1, failed),
                          "get_order_details", n > failed, 0)

\* a started evaluator after turns calls of record_turn, the last of them a
\* transfer when transfer is asked for, and calls calls of record_tool_call
Session(turns, transfer, calls, failed) ==
    LET started == EvStartEvaluation(NewEvaluator, 0, 0)
        talked  == IF transfer
                   THEN EvRecordTurn(AfterUserTurns(started, turns - 1),
                                     MsgTransfer, 0).ev
                   ELSE AfterUserTurns(started, turns)
    IN  AfterToolCalls(talked, calls, failed)

InitTracker ==
    /\ \E turns \in TurnCounts, transfer \in BOOLEAN,
          calls \in ToolCallCounts, failed \in FailedCounts :
          /\ transfer => turns > 0
          /\ failed <= calls
          /\ ev = Session(turns, transfer, calls, failed)
    /\ result = NoResult
    /\ call = NoCall
    /\ ops = 0
    /\ RunIdle

NextTracker ==
    \/ RecordTurn
    \/ RecordToolCall
    \/ CalculateMetricsCall
    \/ ConsumeResult

SpecTracker ==
    InitTracker /\ [][NextTracker]_vars

\* ------------------------------------------------------------------------
\* Properties of evaluate_task
\* ------------------------------------------------------------------------

\* evaluate_task has returned an evaluation result
Evaluated ==
    result.kind = "result" /\ call.op = "evaluate_task"

\* C1 as stated: the errors list of a returned result is empty exactly when
\* binary_reward is 1.0.
C1_EmptyIffSuccess ==
    Evaluated => (result.errors = <<>> <=> result.binary_reward = RewardOne)

\* C1, amended: whenever binary_reward is 1.0 the errors list of the returned
\* result is empty and its summary counts no error, whatever the trajectory,
\* the action lists and the error info are; a failed trial may have an empty
\* errors list too.
C1_SuccessHasNoErrors ==
    Evaluated /\ result.binary_reward = RewardOne =>
        /\ result.errors = <<>>
        /\ result.error_summary.total_errors = 0

\* a successful trial whose trajectory transfers after a tool error and which
\* comes with error info: every pass would have reported something
C1_Witness ==
    /\ Evaluated
    /\ result.binary_reward = RewardOne
    /\ call.conversation = <<MsgCallEmpty, MsgToolError, MsgTransfer>>
    /\ call.error_info # NoInfo
    /\ result.errors = <<>>

\* C8: overall_score is 0.4 * task_completion + 0.3 * efficiency +
\* 0.2 * policy_adherence + 0.1 * user_satisfaction over the sub-scores of the
\* same composite score, and the four weights sum to 1.0.
C8_OverallIsWeightedSum ==
    /\ QAdd(QAdd(TASK_COMPLETION_WEIGHT, EFFICIENCY_WEIGHT),
            QAdd(POLICY_ADHERENCE_WEIGHT, USER_SATISFACTION_WEIGHT)) = One
    /\ Evaluated =>
          LET s == result.composite_score
          IN  s.overall_score =
                  QAdd(QAdd(QMul(Q(4, 10), s.task_completion),
                            QMul(Q(3, 10), s.efficiency)),
                       QAdd(QMul(Q(2, 10), s.policy_adherence),
                            QMul(Q(1, 10), s.user_satisfaction)))

\* a result whose four sub-scores are all positive and not all equal
C8_Witness ==
    /\ Evaluated
    /\ QLt(Zero, result.composite_score.task_completion)
    /\ QLt(Zero, result.composite_score.efficiency)
    /\ QLt(Zero, result.composite_score.policy_adherence)
    /\ QLt(Zero, result.composite_score.user_satisfaction)
    /\ result.composite_score.user_satisfaction # result.composite_score.task_completion
    /\ QLt(result.composite_score.overall_score, One)

\* the findings of one category among the errors of the result
FindingsOf(category) ==
    SelectSeq(result.errors, LAMBDA f : f.category = category)

\* the action findings are exactly those the two differences call for
ActionFindingsMatch(missing, extra) ==
    /\ FindingsOf("missing_tools") =
          IF missing # {}
          THEN << Finding("missing_tools", "high", Q(9, 10), missing, "missing") >>
          ELSE <<>>
    /\ FindingsOf("wrong_arguments") =
          IF extra # {}
          THEN << Finding("wrong_arguments", "medium", Q(8, 10), extra, "unnecessary") >>
          ELSE <<>>

\* C9 as stated: for every failed trial the findings hold exactly one HIGH
\* missing-actions finding listing required - actual whenever that set is
\* non-empty, and exactly one MEDIUM extra-actions finding listing
\* actual - required whenever that set is non-empty.
C9_DiffAlwaysReported ==
    Evaluated /\ result.binary_reward # RewardOne =>
        ActionFindingsMatch(NameSet(call.task_actions) \ NameSet(call.actual_actions),
                            NameSet(call.actual_actions) \ NameSet(call.task_actions))

\* C9, amended: for a failed trial whose required and actual action lists are
\* both non-empty, the findings hold exactly one HIGH missing-actions finding
\* listing all of required - actual whenever that set is non-empty (none
\* otherwise) and exactly one MEDIUM extra-actions finding listing all of
\* actual - required whenever that set is non-empty (none otherwise); when
\* either list is empty there is no action finding at all.
C9_DiffReportedForNonEmptyLists ==
    Evaluated /\ result.binary_reward # RewardOne =>
        IF call.task_actions # <<>> /\ call.actual_actions # <<>>
        THEN ActionFindingsMatch(
                 NameSet(call.task_actions) \ NameSet(call.actual_actions),
                 NameSet(call.actual_actions) \ NameSet(call.task_actions))
        ELSE ActionFindingsMatch({}, {})

\* a failed trial missing two required actions and with one extra action
C9_Witness ==
    /\ Evaluated
    /\ result.binary_reward = 0
    /\ call.task_actions = <<"get_user_details", "get_order_details", "cancel_pending_order">>
    /\ call.actual_actions = <<"get_user_details", "modify_user_address">>
    /\ Len(FindingsOf("missing_tools")) = 1
    /\ FindingsOf("missing_tools")[1].names = {"get_order_details", "cancel_pending_order"}
    /\ Len(FindingsOf("wrong_arguments")) = 1
    /\ FindingsOf("wrong_arguments")[1].names = {"modify_user_address"}

\* C10: task_completion is 1.0 if binary_reward is 1.0; else 0.0 if either
\* action list is empty; else |required /\ actual| / |required| minus
\* min(0.5, 0.1 * |actual - required|), floored at 0, on action names only.
\* Required {A,B,C} against actual {A,B,D} gives 2/3 - 0.1.
C10_TaskCompletionFormula ==
    Evaluated =>
        LET req   == NameSet(call.task_actions)
            act   == NameSet(call.actual_actions)
            extra == Cardinality(act \ req)
            ratio == Q(Cardinality(req \cap act), IF req = {} THEN 1 ELSE Cardinality(req))
            pen   == IF extra >= 5 THEN Q(1, 2) ELSE Q(extra, 10)
            diff  == QSub(ratio, pen)
            tc    == result.composite_score.task_completion
        IN  /\ call.binary_reward = RewardOne => tc = One
            /\ call.binary_reward # RewardOne /\ (req = {} \/ act = {}) => tc = Zero
            /\ call.binary_reward # RewardOne /\ req # {} /\ act # {} =>
                  tc = IF diff.n < 0 THEN Zero ELSE diff
            /\ /\ call.binary_reward # RewardOne
               /\ Cardinality(req) = 3 /\ Cardinality(req \cap act) = 2
               /\ Cardinality(act) = 3
               => tc = QSub(Q(2, 3), Q(1, 10))

\* the worked example: three required actions, two of them taken, one extra
C10_Witness ==
    /\ Evaluated
    /\ result.binary_reward = 0
    /\ call.task_actions = <<"get_user_details", "get_order_details", "cancel_pending_order">>
    /\ call.actual_actions = <<"get_user_details", "get_order_details", "modify_user_address">>
    /\ result.composite_score.task_completion = Q(17, 30)

\* ------------------------------------------------------------------------
\* Properties of run()
\* ------------------------------------------------------------------------

\* the results of the units of the current trial that have appended
DoneResults ==
    LET done == SelectSeq([p \in Units |-> p], LAMBDA p : pc[p] = "done")
    IN  [k \in 1..Len(done) |-> unit_result[done[k]]]

\* every record some unit has appended so far in the run
Appended ==
    results \o DoneResults

SameRecords(xs, ys) ==
    \A r \in Range(xs) \cup Range(ys) : Count(xs, r) = Count(ys, r)

\* C2: the locked read-modify-write of the checkpoint never loses a record:
\* whenever a unit has finished its append the file holds that unit's record
\* together with the record of every unit that finished earlier in the run,
\* and once all units have finished it holds exactly one record per executed
\* unit.
C2_NoRecordLost ==
    /\ main \in {"loop", "pool", "display", "save", "done"} =>
          /\ SameRecords(ckpt.records, Appended)
          /\ ckpt.exists <=> Appended # <<>>
    /\ main \in {"display", "save", "done"} =>
          Len(ckpt.records) = config.num_trials * Len(Worklist(config))

\* the second trial of a concurrent run has finished, its second unit having
\* appended before its first
C2_Witness ==
    /\ main = "pool"
    /\ config.max_concurrency > 1
    /\ i = 1
    /\ pc = <<"done", "done">>
    /\ Len(ckpt.records) = 4
    /\ ckpt.records[3] = unit_result[2]
    /\ ckpt.records[4] = unit_result[1]
    /\ unit_result[1] # unit_result[2]

\* the units of the current trial whose agent.solve raised and which returned
RaisedUnits ==
    {p \in Units : solved[p].kind = "raise" /\ pc[p] = "done"}

\* the records of the file for one (task_id, trial)
RecordsFor(task_id, trial) ==
    {k \in 1..Len(ckpt.records) :
        ckpt.records[k].task_id = task_id /\ ckpt.records[k].trial = trial}

\* the unit's record is in the file, once per unit run for its (task, trial),
\* with reward 0.0, an empty trajectory and the error info
FailureRecorded(p) ==
    /\ unit_result[p] \in Range(ckpt.records)
    /\ Cardinality(RecordsFor(idxs[p], i)) =
          Cardinality({q \in Units : pc[q] = "done" /\ idxs[q] = idxs[p]})
    /\ unit_result[p].task_id = idxs[p]
    /\ unit_result[p].trial = i
    /\ unit_result[p].reward = 0
    /\ unit_result[p].traj = <<>>
    /\ unit_result[p].info.kind = "dict"
    /\ unit_result[p].info.error = solved[p].message
    /\ unit_result[p].info.traceback # ""

\* C3 as stated: a unit whose solve raises still produces exactly one
\* checkpoint record for its (task, trial), with reward 0.0, an empty
\* trajectory and an info mapping carrying the non-empty error message and
\* the traceback.
C3_FailureRecordedWithMessage ==
    \A p \in RaisedUnits :
        FailureRecorded(p) /\ unit_result[p].info.error # ""

\* C3, amended: a unit whose solve raises still produces exactly one
\* checkpoint record for its (task, trial), with reward 0.0, an empty
\* trajectory and an info mapping carrying the error message str(e), which is
\* empty when the exception has no message, and the non-empty traceback.
C3_FailureRecorded ==
    \A p \in RaisedUnits : FailureRecorded(p)

\* a unit whose solve raised an exception with no message has appended
C3_Witness ==
    \E p \in RaisedUnits :
        /\ solved[p].message = ""
        /\ unit_result[p].info.error = ""
        /\ unit_result[p] \in Range(ckpt.records)

\* the result run() holds for the unit at position p of finished trial t
ResultOf(t, p) ==
    results[SeqSum([k \in 1..(t - 1) |-> Len(history[k].idxs)]) + p]

\* C4: an exception raised by agent.solve is caught at the unit boundary and
\* never leaves the worker pool: no unit's future holds an exception, run()
\* does not raise, and when run() returns every unit of every trial, the
\* raising ones and all the others, has run and has its result.
C4_ExceptionsContained ==
    /\ main # "raised"
    /\ \A p \in Units : pc[p] # "failed"
    /\ main = "done" =>
          /\ Len(history) = config.num_trials
          /\ Len(results) = config.num_trials * Len(Worklist(config))
          /\ \A t \in 1..Len(history) : \A p \in 1..Len(history[t].idxs) :
                /\ ResultOf(t, p).task_id = history[t].idxs[p]
                /\ ResultOf(t, p).trial = t - 1
                /\ history[t].solved[p].kind = "raise" => ResultOf(t, p).reward = 0
                /\ history[t].solved[p].kind = "return" =>
                      \/ ResultOf(t, p).reward = history[t].solved[p].reward
                      \/ ResultOf(t, p).info # AgentInfo

\* run() has returned from a concurrent run in which one unit raised an
\* exception without message and another unit of the same trial succeeded
C4_Witness ==
    /\ main = "done"
    /\ config.max_concurrency > 1
    /\ \E t \in 1..Len(history) : \E p, q \in 1..Len(history[t].idxs) :
          /\ history[t].solved[p] = Raises("RuntimeError", "")
          /\ history[t].solved[q].kind = "return"
          /\ ResultOf(t, q).reward = RewardOne

UniqueKeys(rs) ==
    \A j, k \in 1..Len(rs) :
        rs[j].task_id = rs[k].task_id /\ rs[j].trial = rs[k].trial => j = k

\* C5: no two checkpoint records, and no two in-memory results, ever share
\* the same (task_id, trial) pair, for every task selection (an explicit
\* task-id list or a start/end range), with and without shuffling.
C5_UniqueTaskTrial ==
    /\ UniqueKeys(ckpt.records)
    /\ UniqueKeys(results)
    /\ UniqueKeys(DoneResults)

\* the results of every unit of every finished trial, from what agent.solve
\* did in it alone
ReferenceResults ==
    Flatten([t \in 1..Len(history) |->
        [p \in 1..Len(history[t].idxs) |->
            UnitResult(history[t].idxs[p], t - 1, history[t].solved[p])]])

\* C6: the aggregate metrics are determined by the worklists and by what
\* agent.solve did in each unit: for fixed per-unit outcomes a run with
\* max_concurrency 1 and a run with max_concurrency N compute identical
\* metrics, whatever the interleaving of the workers (stated where
\* display_metrics has just returned; metrics does not change afterwards).
C6_MetricsIndependentOfSchedule ==
    main = "save" =>
        /\ metrics = DisplayMetrics(ReferenceResults)
        /\ SameRecords(results, ReferenceResults)

\* the metrics of a concurrent run whose units appended in another order than
\* the worklist's, with successes and failures
C6_Witness ==
    /\ main = "save"
    /\ config.max_concurrency > 1
    /\ ckpt.records # results
    /\ metrics # NoMetrics
    /\ metrics.avg_reward \notin {Zero, One}

RECURSIVE Factorial(_)
Factorial(n) ==
    IF n <= 0 THEN 1 ELSE n * Factorial(n - 1)

\* the binomial coefficient C(n, k), 0 when k > n
Binomial(n, k) ==
    IF k > n THEN 0 ELSE Factorial(n) \div (Factorial(k) * Factorial(n - k))

\* c: the number of results of a task whose reward is within 1e-6 of 1.0
SuccessfulTrials(task_id) ==
    Cardinality({j \in 1..Len(results) :
        /\ results[j].task_id = task_id
        /\ results[j].reward >= RewardOne - 10
        /\ results[j].reward <= RewardOne + 10})

\* C7: for every k in 1..num_trials, pass^k is the mean over tasks of
\* C(c, k) / C(num_trials, k), c being the number of the task's trials whose
\* reward is within 1e-6 of 1.0; a task with c = 2 of 3 trials contributes
\* 2/3, 1/3 and 0 for k = 1, 2, 3.
C7_PassHatK ==
    metrics # NoMetrics =>
        LET tasks      == {results[j].task_id : j \in 1..Len(results)}
            num_trials == Cardinality({results[j].trial : j \in 1..Len(results)})
        IN  /\ DOMAIN metrics.pass_hat_ks = 1..num_trials
            /\ \A k \in 1..num_trials :
                  metrics.pass_hat_ks[k] =
                      QMul(QSetSum(tasks,
                               [t \in tasks |->
                                   Q(Binomial(SuccessfulTrials(t), k),
                                     Binomial(num_trials, k))]),
                           Q(1, Cardinality(tasks)))
            /\ num_trials = 3 /\ tasks = {0} /\ SuccessfulTrials(0) = 2 =>
                  metrics.pass_hat_ks = <<Q(2, 3), Q(1, 3), Zero>>

\* one task, three trials, two of them successful, one of these with a
\* reward that is not exactly 1.0
C7_Witness ==
    /\ metrics # NoMetrics
    /\ Len(results) = 3
    /\ results[1].reward = RewardOne - 5
    /\ results[2].reward = 0
    /\ results[3].reward = RewardOne
    /\ metrics.pass_hat_ks = <<Q(2, 3), Q(1, 3), Zero>>

\* C11: for a failed trial analyze_error emits a goal_partial_completion
\* finding exactly when 0 < |required /\ actual| / |required| < 1 (both on
\* action names), a single one, of severity HIGH when the ratio is below 0.5
\* and MEDIUM otherwise; with ratio 0 or 1 there is none.
C11_PartialCompletionFinding ==
    Evaluated /\ call.binary_reward # RewardOne =>
        LET req      == NameSet(call.task_actions)
            act      == NameSet(call.actual_actions)
            matching == Cardinality(req \cap act)
            total    == Cardinality(req)
            partial  == FindingsOf("goal_partial_completion")
        IN  IF total > 0 /\ 0 < matching /\ matching < total
            THEN /\ Len(partial) = 1
                 /\ partial[1].severity = IF 2 * matching < total THEN "high" ELSE "medium"
            ELSE partial = <<>>

\* two of four required actions taken: the ratio is exactly one half, MEDIUM
C11_Witness ==
    /\ Evaluated
    /\ call.binary_reward = 0
    /\ call.task_actions = ActionNames
    /\ call.actual_actions = <<"get_user_details", "cancel_pending_order">>
    /\ Len(FindingsOf("goal_partial_completion")) = 1
    /\ FindingsOf("goal_partial_completion")[1].severity = "medium"

\* ------------------------------------------------------------------------
\* Properties of the tracker and the scorer
\* ------------------------------------------------------------------------

\* calculate_metrics has returned
Measured ==
    result.kind = "metrics" /\ call.op = "calculate_metrics"

\* C12: calculate_metrics on a tracker on which start_evaluation was never
\* called returns the all-zero metrics (every numeric field 0, transfer_to_human
\* false), whatever record_turn and record_tool_call recorded before it.
C12_UnstartedMetricsAreZero ==
    Measured /\ ~ev.efficiency_tracker.start_time =>
        LET m == result.metrics
        IN  /\ \A f \in {"avg_response_time", "conversation_efficiency",
                          "tool_call_success_rate", "tool_call_efficiency",
                          "tokens_per_turn", "cost_estimate", "transfer_rate",
                          "overall_efficiency"} : m[f] = Zero
            /\ \A f \in {"tool_call_duration", "total_turns", "total_tool_calls",
                          "successful_tool_calls", "total_tokens"} : m[f] = 0
            /\ m.transfer_to_human = FALSE

\* a never-started tracker that has recorded a transfer turn and a tool call
C12_Witness ==
    /\ Measured
    /\ ~ev.efficiency_tracker.start_time
    /\ ev.efficiency_tracker.conversation_turns = 1
    /\ ev.efficiency_tracker.transfer_to_human
    /\ Len(ev.efficiency_tracker.tool_calls) = 1
    /\ result.metrics.total_turns = 0
    /\ result.metrics.total_tool_calls = 0

\* the per-trial state of the tracker, the scorer and the replay guard is the
\* initial one
PerTrialInitial(e) ==
    /\ e.efficiency_tracker.tool_calls = <<>>
    /\ e.efficiency_tracker.conversation_turns = 0
    /\ e.efficiency_tracker.total_tokens = 0
    /\ e.efficiency_tracker.transfer_to_human = FALSE
    /\ e.efficiency_tracker.response_times = <<>>
    /\ e.composite_scorer.tool_calls = <<>>
    /\ e.composite_scorer.conversation_turns = 0
    /\ e.composite_scorer.transfer_to_human = FALSE
    /\ e.conversation_processed # "true"

\* C13: when start_evaluation returns, after whatever calls of record_turn,
\* record_tool_call, start_response, end_response and evaluate_task came
\* before it, the tracker and the scorer are in the initial per-trial state
\* (no tool call, turn counter 0, token counter 0, transfer flag false, no
\* response time) and the replay guard of the evaluator is cleared.
C13_StartEvaluationResets ==
    call.op = "start_evaluation" =>
        /\ PerTrialInitial(ev)
        /\ ev.efficiency_tracker.start_time
        /\ ev.composite_scorer.start_time

\* start_evaluation has returned on an evaluator that had replayed a
\* trajectory with tool calls and a transfer
C13_Witness ==
    /\ call.op = "start_evaluation"
    /\ result = ReturnedNone
    /\ call.before.conversation_processed = "true"
    /\ call.before.efficiency_tracker.conversation_turns = 3
    /\ call.before.efficiency_tracker.total_tokens > 0
    /\ call.before.efficiency_tracker.tool_calls # <<>>
    /\ call.before.efficiency_tracker.response_times # <<>>
    /\ call.before.efficiency_tracker.transfer_to_human
    /\ call.before.composite_scorer.transfer_to_human
    /\ call.before.composite_scorer.tool_calls # <<>>
    /\ PerTrialInitial(ev)

\* C14: once evaluate_task has replayed a trajectory, a further evaluate_task
\* on the same evaluator without a start_evaluation in between replays
\* nothing: the turn count, the tool-call count and the token count are what
\* they were before the call, whatever trajectory it is given.
C14_NoSecondReplay ==
    call.op = "evaluate_task" /\ call.before.conversation_processed = "true" =>
        /\ ev.efficiency_tracker.conversation_turns =
               call.before.efficiency_tracker.conversation_turns
        /\ Len(ev.efficiency_tracker.tool_calls) =
               Len(call.before.efficiency_tracker.tool_calls)
        /\ ev.efficiency_tracker.total_tokens =
               call.before.efficiency_tracker.total_tokens
        /\ ev.composite_scorer.conversation_turns =
               call.before.composite_scorer.conversation_turns
        /\ Len(ev.composite_scorer.tool_calls) =
               Len(call.before.composite_scorer.tool_calls)

\* a two-message trajectory was replayed; evaluate_task is then given a
\* four-message trajectory with a tool call and returns
C14_Witness ==
    /\ Evaluated
    /\ call.before.conversation_processed = "true"
    /\ call.before.efficiency_tracker.conversation_turns = 2
    /\ call.before.efficiency_tracker.tool_calls = <<>>
    /\ call.conversation = <<MsgUserYes, MsgCallEmpty, MsgToolOk, MsgDone>>
    /\ ev.efficiency_tracker.conversation_turns = 2
    /\ ev.efficiency_tracker.tool_calls = <<>>

\* C15: the transfer-to-human flag of the tracker and of the scorer, once
\* set, stays set through every later record_turn, record_tool_call,
\* start_response, end_response, calculate_metrics (and evaluate_task) of the
\* trial; only start_evaluation makes it false again.
C15_TransferFlagSticky ==
    call.op \notin {"none", "start_evaluation"} =>
        /\ call.before.efficiency_tracker.transfer_to_human =>
               ev.efficiency_tracker.transfer_to_human
        /\ call.before.composite_scorer.transfer_to_human =>
               ev.composite_scorer.transfer_to_human

\* a transfer turn was recorded; record_turn is then given an assistant
\* message without either phrase
C15_Witness ==
    /\ call.op = "record_turn"
    /\ result = ReturnedNone
    /\ call.message = MsgDone
    /\ call.before.efficiency_tracker.transfer_to_human
    /\ call.before.composite_scorer.transfer_to_human
    /\ ev.efficiency_tracker.conversation_turns = 2
    /\ ev.efficiency_tracker.transfer_to_human
    /\ ev.composite_scorer.transfer_to_human

\* record_turn was called without a token count
TurnEstimated ==
    call.op = "record_turn" /\ call.tokens_used = 0

\* the tokens the last call added to the tracker
TokensAdded ==
    ev.efficiency_tracker.total_tokens - call.before.efficiency_tracker.total_tokens

\* floor((character_count + 10 + 50 * embedded_tool_call_count) / 4), at least 1
TokenFormula(message) ==
    LET chars == IF message.content = PyNone THEN 0 ELSE StrLen(message.content)
        est   == (chars + 10 + 50 * Len(message.tool_calls)) \div 4
    IN  IF est < 1 THEN 1 ELSE est

MeasuredStarted ==
    Measured /\ ev.efficiency_tracker.start_time

\* the step function of the turn count, in tenths
TurnStep(n) ==
    IF n <= 20 THEN 10 ELSE IF n <= 40 THEN 8 ELSE IF n <= 60 THEN 6 ELSE 4

\* the step function of the tool-call count, in tenths
ToolCallStep(n) ==
    IF n <= 10 THEN 10 ELSE IF n <= 20 THEN 8 ELSE IF n <= 30 THEN 6 ELSE 4

\* step(turn count) minus 0.3 if transferred, floored at 0
SteppedConversationEfficiency(tr) ==
    LET tenths == TurnStep(tr.conversation_turns) -
                  (IF tr.transfer_to_human THEN 3 ELSE 0)
    IN  Q(IF tenths < 0 THEN 0 ELSE tenths, 10)

\* C17 as stated: on a started tracker conversation_efficiency is
\* step(turn count) minus 0.3 if transferred, floored at 0, with step 1.0 up
\* to 20 turns, 0.8 up to 40, 0.6 up to 60 and 0.4 above, for every turn
\* count, 0 included.
C17_ConversationEfficiencyStep ==
    MeasuredStarted =>
        result.metrics.conversation_efficiency =
            SteppedConversationEfficiency(ev.efficiency_tracker)

\* C17, amended: on a started tracker conversation_efficiency is 0.0 when no
\* turn has been recorded, and for every positive turn count it is step(turn
\* count) minus 0.3 if transferred, floored at 0, with step 1.0 up to 20
\* turns, 0.8 up to 40, 0.6 up to 60 and 0.4 above.
C17_ConversationEfficiencyStepPositive ==
    MeasuredStarted =>
        result.metrics.conversation_efficiency =
            IF ev.efficiency_tracker.conversation_turns = 0
            THEN Zero
            ELSE SteppedConversationEfficiency(ev.efficiency_tracker)

\* 61 turns, the last of them a transfer: 0.4 - 0.3
C17_Witness ==
    /\ MeasuredStarted
    /\ ev.efficiency_tracker.conversation_turns = 61
    /\ ev.efficiency_tracker.transfer_to_human
    /\ result.metrics.conversation_efficiency = Q(1, 10)

\* successes / total, or 1.0 when no tool call was recorded
SuccessRate(tr) ==
    IF tr.tool_calls = <<>>
    THEN One
    ELSE Q(SuccessCount(tr.tool_calls), Len(tr.tool_calls))

\* the average of step(tool-call count) and the success rate
SteppedToolCallEfficiency(tr) ==
    QMul(QAdd(Q(ToolCallStep(Len(tr.tool_calls)), 10), SuccessRate(tr)), Q(1, 2))

\* C18 as stated: on a started tracker tool_call_success_rate is
\* successes / total, or 1.0 when no call was made, and tool_call_efficiency
\* is the average of step(tool-call count) (1.0 up to 10 calls, 0.8 up to 20,
\* 0.6 up to 30, 0.4 above) and that success rate, for every tool-call
\* count, 0 included.
C18_ToolCallEfficiencyStep ==
    MeasuredStarted =>
        /\ result.metrics.tool_call_success_rate = SuccessRate(ev.efficiency_tracker)
        /\ result.metrics.tool_call_efficiency =
               SteppedToolCallEfficiency(ev.efficiency_tracker)

\* C18, amended: on a started tracker tool_call_success_rate is
\* successes / total, or 1.0 when no call was made; tool_call_efficiency is
\* 0.5 when no call was made, and for every positive tool-call count it is
\* the average of step(tool-call count) (1.0 up to 10 calls, 0.8 up to 20, 0.6
\* up to 30, 0.4 above) and the success rate.
C18_ToolCallEfficiencyStepPositive ==
    MeasuredStarted =>
        /\ result.metrics.tool_call_success_rate = SuccessRate(ev.efficiency_tracker)
        /\ result.metrics.tool_call_efficiency =
               IF ev.efficiency_tracker.tool_calls = <<>>
               THEN Q(1, 2)
               ELSE SteppedToolCallEfficiency(ev.efficiency_tracker)

\* 21 tool calls, 10 of them failed: (0.6 + 11/21) / 2
C18_Witness ==
    /\ MeasuredStarted
    /\ Len(ev.efficiency_tracker.tool_calls) = 21
    /\ SuccessCount(ev.efficiency_tracker.tool_calls) = 11
    /\ result.metrics.tool_call_success_rate = Q(11, 21)
    /\ result.metrics.tool_call_efficiency = Q(118, 210)

\* ------------------------------------------------------------------------
\* Properties of the sub-scores and the findings
\* ------------------------------------------------------------------------

\* the names of the tool calls the messages of a trajectory embed, in order
RECURSIVE ToolCallNames(_)
ToolCallNames(conversation) ==
    IF conversation = <<>>
    THEN <<>>
    ELSE Head(conversation).tool_calls \o ToolCallNames(Tail(conversation))

\* evaluate_task has returned for a non-empty trajectory and the actions
\* executed in it
EvaluatedTrajectory ==
    /\ Evaluated
    /\ call.conversation # <<>>
    /\ call.actual_actions = ToolCallNames(call.conversation)

\* a user message containing "yes" is among the 5 messages before position p
ConfirmedBefore(conversation, p) ==
    \E k \in 1..(p - 1) :
        /\ k >= p - 5
        /\ conversation[k].role = "user"
        /\ conversation[k].content # PyNone
        /\ HasAny(conversation[k].content, {"yes"})

\* the consequential actions executed at position p without such a message
UnconfirmedAt(conversation, p) ==
    IF ConfirmedBefore(conversation, p)
    THEN 0
    ELSE Cardinality({k \in 1..Len(conversation[p].tool_calls) :
                         conversation[p].tool_calls[k] \in ConsequentialActions})

\* C19: policy_adherence loses 0.2 for each executed consequential action
\* (exchange, return, modify or cancel order) that is not preceded, within the
\* 5 messages before it in the trajectory, by a user message containing
\* "yes"; an action confirmed in this way costs nothing, and a "yes"
\* elsewhere in the trajectory does not excuse an unconfirmed one.
C19_ConfirmationBeforeAction ==
    EvaluatedTrajectory =>
        LET conversation == call.conversation
            phrases   == QSeqSum([k \in 1..Len(conversation) |->
                             PolicyMessagePenalty(conversation[k], ev.composite_scorer)])
            actions   == SeqSum([k \in 1..Len(conversation) |->
                             UnconfirmedAt(conversation, k)])
        IN  result.composite_score.policy_adherence =
                QMax(Zero, QSub(QSub(One, phrases), Q(2 * actions, 10)))

\* evaluate_task has returned the result of a failed trial
EvaluatedFailure ==
    Evaluated /\ call.binary_reward # RewardOne

\* C20 as stated: for a failed trial analyze_error emits a system-error
\* finding exactly when error_info carries a non-empty "error" entry, and then
\* exactly one, of CRITICAL severity and confidence 1.0.
C20_SystemErrorIffMessage ==
    EvaluatedFailure =>
        LET system == FindingsOf("runtime_error")
        IN  IF HasErrorNonEmpty(call.error_info)
            THEN /\ Len(system) = 1
                 /\ system[1].severity = "critical"
                 /\ system[1].confidence = One
            ELSE system = <<>>

\* C20, amended: for a failed trial analyze_error emits a system-error
\* finding exactly when error_info is a dict that has the key "error",
\* whatever the value under it, the empty message included; it is then
\* exactly one finding, of CRITICAL severity and confidence 1.0.
C20_SystemErrorIffKey ==
    EvaluatedFailure =>
        LET system == FindingsOf("runtime_error")
        IN  IF call.error_info.kind = "dict" /\ "error" \in call.error_info.keys
            THEN /\ Len(system) = 1
                 /\ system[1].severity = "critical"
                 /\ system[1].confidence = One
            ELSE system = <<>>

\* a failed trial evaluated with error_info {'error': '', 'traceback': ...}
C20_Witness ==
    /\ EvaluatedFailure
    /\ call.error_info = ErrorInfo("", "Traceback")
    /\ call.conversation = <<MsgUserYes, MsgDone>>
    /\ Len(FindingsOf("runtime_error")) = 1
    /\ FindingsOf("runtime_error")[1].severity = "critical"

\* C21: in every result of evaluate_task composite_score.efficiency equals
\* efficiency_metrics.overall_efficiency of the same result (the scorer asks
\* the evaluator's own tracker, whose state does not change in between); a
\* scorer to which no tracker is attached gives 0.5 instead.
C21_EfficiencyDelegated ==
    /\ Evaluated =>
          result.composite_score.efficiency = result.efficiency_metrics.overall_efficiency
    /\ CalculateEfficiencyScoreFromTracker(NewScorer, ev.efficiency_tracker) = Q(1, 2)

\* a result after a transfer and a failed tool call, whose efficiency is
\* neither the neutral 0.5 nor 1.0
C21_Witness ==
    /\ Evaluated
    /\ call.conversation = <<MsgCallEmpty, MsgToolError, MsgTransfer>>
    /\ result.efficiency_metrics.transfer_to_human
    /\ result.composite_score.efficiency # Q(1, 2)
    /\ QLt(result.composite_score.efficiency, One)
    /\ result.composite_score.efficiency = result.efficiency_metrics.overall_efficiency

\* ------------------------------------------------------------------------
\* Properties of run(): order, dispatch, termination
\* ------------------------------------------------------------------------

\* the step appends to the file the record of the unit that holds the lock,
\* and nothing else changes in the file
AppendedByLockHolder ==
    \E p \in Units :
        /\ lock = p
        /\ pc[p] = "locked"
        /\ pc'[p] = "done"
        /\ ckpt'.records = Append(ckpt.records, unit_result[p])

\* C22 as stated: at every point of the run, the end of the run included, the
\* records of the checkpoint file are in the order in which their units
\* acquired the lock: the file changes only by the lock holder's record being
\* put at its end.
C22_CompletionOrderAlways ==
    [][ckpt'.records # ckpt.records => AppendedByLockHolder]_vars

\* C22, amended: as long as units are running, up to the final save, the
\* records of the checkpoint file are in the order in which their units
\* acquired the lock, not in worklist order; the final save of run() rewrites
\* the file in the order of results, trial by trial in worklist order.
C22_CompletionOrderUntilSave ==
    [][/\ main # "save" /\ ckpt'.records # ckpt.records => AppendedByLockHolder
       /\ main = "save" /\ main' = "done" => ckpt'.records = results]_vars

\* both units of a trial have written, the second of the worklist first
C22_Witness ==
    /\ main = "pool"
    /\ Len(idxs) = 2
    /\ idxs[1] # idxs[2]
    /\ pc = <<"done", "done">>
    /\ Len(ckpt.records) = 2
    /\ ckpt.records[1] = unit_result[2]
    /\ ckpt.records[2] = unit_result[1]

\* the units of a repetition, given by its worklist ix and what solve did in
\* each unit sv, in which agent.solve has been called on task t
SolveCount(ix, sv, t) ==
    Cardinality({p \in 1..Len(ix) : ix[p] = t /\ sv[p] # NoOutcome})

\* so far no task has been solved more often than the selected worklist names
\* it, and in every finished repetition every task was solved exactly that often
SolvedAsSelected ==
    /\ \A t \in EnvTasks :
          SolveCount(idxs, solved, t) <= Count(Worklist(config), t)
    /\ \A k \in 1..Len(history) : \A t \in EnvTasks :
          SolveCount(history[k].idxs, history[k].solved, t) = Count(Worklist(config), t)

\* within a repetition a unit in which solve was called is not solved again
NoRetry ==
    main = "pool" /\ main' = "pool" =>
        \A p \in Units : solved[p] # NoOutcome => solved'[p] = solved[p]

\* C23: in each repetition agent.solve is invoked exactly once for each entry
\* of the selected worklist (once per task index when the selection names no
\* index twice), with and without shuffle and whether or not the call raises:
\* no retry, no task skipped, none run more often than selected.
C23_SolvedOncePerEntry ==
    []SolvedAsSelected /\ [][NoRetry]_vars

\* a shuffled repetition has finished in the order 1, 0; solve raised on
\* task 1 and returned on task 0
C23_Witness ==
    /\ config.shuffle
    /\ Len(history) >= 1
    /\ history[1].idxs = <<1, 0>>
    /\ history[1].solved[1].kind = "raise"
    /\ history[1].solved[2].kind = "return"
    /\ SolveCount(history[1].idxs, history[1].solved, 0) = 1
    /\ SolveCount(history[1].idxs, history[1].solved, 1) = 1

\* ------------------------------------------------------------------------
\* Properties of the replay of a trajectory
\* ------------------------------------------------------------------------

\* the names the replay of a trajectory records as tool calls, in order: for
\* each message its embedded requests, then the placeholder of a tool message
RECURSIVE ReplayedNames(_)
ReplayedNames(conversation) ==
    IF conversation = <<>>
    THEN <<>>
    ELSE Head(conversation).tool_calls
         \o (IF Head(conversation).role = "tool" THEN <<"unknown_tool">> ELSE <<>>)
         \o ReplayedNames(Tail(conversation))

ToolMessages(conversation) ==
    {p \in 1..Len(conversation) : conversation[p].role = "tool"}

\* evaluate_task has returned on an evaluator that start_evaluation had just
\* started: nothing was recorded by hand and nothing had been replayed
EvaluatedFresh ==
    /\ Evaluated
    /\ PerTrialInitial(call.before)
    /\ call.before.efficiency_tracker.start_time
    /\ call.before.conversation_processed = "false"

\* C24: the replay of evaluate_task on a freshly started evaluator records,
\* message by message, one turn, one tool call per embedded request and one
\* placeholder call for a message of role "tool"; the result's total_turns is
\* the number of messages, its total_tool_calls the number of embedded
\* requests plus the number of tool messages, and the scorer's counts of
\* turns and tool calls equal the tracker's.
C24_ReplayCounts ==
    EvaluatedFresh =>
        /\ ev.efficiency_tracker.conversation_turns = Len(call.conversation)
        /\ [p \in 1..Len(ev.efficiency_tracker.tool_calls) |->
                ev.efficiency_tracker.tool_calls[p].name]
               = ReplayedNames(call.conversation)
        /\ \A p \in 1..Len(ev.efficiency_tracker.tool_calls) :
               ev.efficiency_tracker.tool_calls[p].success
        /\ result.efficiency_metrics.total_turns = Len(call.conversation)
        /\ result.efficiency_metrics.total_tool_calls
               = Len(ToolCallNames(call.conversation))
                 + Cardinality(ToolMessages(call.conversation))
        /\ ev.composite_scorer.conversation_turns
               = ev.efficiency_tracker.conversation_turns
        /\ [p \in 1..Len(ev.composite_scorer.tool_calls) |->
                ev.composite_scorer.tool_calls[p].name]
               = ReplayedNames(call.conversation)

\* a trajectory with an embedded request and a tool message was replayed:
\* four turns, two tool calls
C24_Witness ==
    /\ EvaluatedFresh
    /\ call.conversation = <<MsgUserYes, MsgCallEmpty, MsgToolOk, MsgDone>>
    /\ result.efficiency_metrics.total_turns = 4
    /\ result.efficiency_metrics.total_tool_calls = 2
    /\ Len(ev.composite_scorer.tool_calls) = 2
    /\ ev.efficiency_tracker.tool_calls[2].name = "unknown_tool"

\* ------------------------------------------------------------------------
\* Properties of the unit of work
\* ------------------------------------------------------------------------

\* unit p has built its record after agent.solve returned normally
SolvedNormally(p) ==
    /\ solved[p].kind = "return"
    /\ unit_result[p] # NoResult

\* C25: whenever agent.solve returns normally with reward r and trajectory t,
\* the record of the unit carries r and t; a failure of the evaluation step
\* never turns the outcome into a record of reward 0 with an empty trajectory.
C25_OutcomeKept ==
    \A p \in Units :
        SolvedNormally(p) =>
            /\ unit_result[p].reward = solved[p].reward
            /\ unit_result[p].traj = solved[p].messages

\* ------------------------------------------------------------------------
\* Properties of the repetitions
\* ------------------------------------------------------------------------

\* the units of one repetition
UnitsPerTrial ==
    Len(Worklist(config))

\* while the units of repetition i exist, every unit of the repetitions
\* before it has appended its checkpoint record
EarlierTrialsAppended ==
    main = "pool" => Len(ckpt.records) >= i * UnitsPerTrial

\* C26: repetitions are separated by a barrier. While units of repetition i
\* are dispatched every unit of the earlier repetitions has finished and
\* appended its record, so under any interleaving of the workers the record a
\* unit builds carries the repetition it was dispatched in, and the records
\* of the checkpoint file are grouped by repetition: the q-th record has
\* trial (q - 1) \div |worklist|.
C26_TrialBarrier ==
    /\ EarlierTrialsAppended
    /\ \A p \in Units : unit_result[p] # NoResult => unit_result[p].trial = i
    /\ \A q \in 1..Len(ckpt.records) :
          ckpt.records[q].trial = (q - 1) \div UnitsPerTrial

\* in the second repetition of two tasks the units have appended in the
\* order 2, 1: the file holds two records of trial 0, then two of trial 1
C26_Witness ==
    /\ main = "pool"
    /\ i = 1
    /\ Len(idxs) = 2
    /\ pc = <<"done", "done">>
    /\ Len(ckpt.records) = 4
    /\ ckpt.records[2].trial = 0
    /\ ckpt.records[3] = unit_result[2]
    /\ ckpt.records[3].trial = 1
    /\ ckpt.records[4] = unit_result[1]

\* ------------------------------------------------------------------------
\* Termination of the run
\* ------------------------------------------------------------------------

\* only a worker inside the with block holds the checkpoint lock, and between
\* the repetitions the lock is free and every unit so far has appended
LockReleased ==
    /\ \A p \in Units : pc[p] # "locked" => lock # p
    /\ main \in {"loop", "display", "save", "done"} =>
          /\ lock = 0
          /\ Len(ckpt.records) = i * Len(Worklist(config))

\* run() has returned its results
Completed ==
    /\ main = "done"
    /\ lock = 0
    /\ Len(results) = config.num_trials * Len(Worklist(config))

\* the main thread is past the pool of the last repetition only if
\* agent.solve has returned or raised in every unit of every repetition
CompletedOnlyAfterSolve ==
    main \in {"display", "save", "done"} =>
        /\ Len(history) = config.num_trials
        /\ \A k \in 1..Len(history) : \A p \in 1..Len(history[k].solved) :
              history[k].solved[p] # NoOutcome

\* C27: if every call of agent.solve returns or raises, the run terminates:
\* run() returns num_trials * |worklist| results with the checkpoint lock
\* free, every worker having taken the lock, appended and released it (the
\* lock is held only inside the with block and every repetition ends with
\* all its records appended); and the run never completes while a call of
\* agent.solve has not returned.
C27_RunTerminates ==
    /\ <>Completed
    /\ []LockReleased
    /\ []CompletedOnlyAfterSolve

\* a run of two repetitions of two tasks has returned its four results
C27_Witness ==
    /\ Completed
    /\ config.num_trials = 2
    /\ Len(results) = 4
    /\ ckpt.records = results

\* ------------------------------------------------------------------------
\* Properties of pass^k over the results of a run
\* ------------------------------------------------------------------------

\* the number of trials display_metrics derives from the results
DerivedTrials ==
    Cardinality({results[j].trial : j \in 1..Len(results)})

\* C28: for the results of a run every pass^k lies in [0, 1] and pass^k does
\* not increase with k; equivalently no task has more successful results
\* than the number of trials display_metrics derives from the distinct trial
\* indices.
C28_PassHatKBounded ==
    metrics # NoMetrics =>
        /\ \A k \in DOMAIN metrics.pass_hat_ks :
              /\ QLe(Zero, metrics.pass_hat_ks[k])
              /\ QLe(metrics.pass_hat_ks[k], One)
              /\ k > 1 => QLe(metrics.pass_hat_ks[k], metrics.pass_hat_ks[k - 1])
        /\ \A j \in 1..Len(results) :
              SuccessfulTrials(results[j].task_id) <= DerivedTrials

\* C29: a trial that pass^k counts as successful (reward within 1e-6 of 1.0)
\* is treated as successful by the evaluation of that trial too: the error
\* list of its record is empty and its task_completion is 1.0.
C29_SuccessAgrees ==
    Evaluated /\ IsSuccessful(call.binary_reward) =>
        /\ result.errors = <<>>
        /\ result.composite_score.task_completion = One

\* ------------------------------------------------------------------------
\* Range of the scores
\* ------------------------------------------------------------------------

InUnit(q) ==
    QLe(Zero, q) /\ QLe(q, One)

====
